---- MODULE Spec2Model ----
(***************************************************************************)
(* Model of backend/music_search.py: the search-query lexer, the recursive *)
(* descent parser, the SQL predicate compiler and the AI-search extractor. *)
(*                                                                         *)
(* A text is a sequence of one-character strings.  Positions are the       *)
(* 0-based indices of the Python code: At(text, i) is text[i] and          *)
(* Slice(text, i, j) is text[i:j].                                         *)
(***************************************************************************)
EXTENDS Integers, Sequences, FiniteSets, TLC

\* ------------------------------------------------------------------------
\* Characters and Python string primitives
\* ------------------------------------------------------------------------

Lowers == <<"a","b","c","d","e","f","g","h","i","j","k","l","m",
            "n","o","p","q","r","s","t","u","v","w","x","y","z">>

Uppers == <<"A","B","C","D","E","F","G","H","I","J","K","L","M",
            "N","O","P","Q","R","S","T","U","V","W","X","Y","Z">>

LowerSet == {Lowers[i] : i \in 1..26}

UpperSet == {Uppers[i] : i \in 1..26}

Digits == <<"0","1","2","3","4","5","6","7","8","9">>

DigitSet == {Digits[i] : i \in 1..10}

\* str.isspace() / regex \s
IsSpace(c) == c \in {" ", "\t", "\n"}

\* regex class [a-zA-Z]
IsLetter(c) == c \in LowerSet \/ c \in UpperSet

ToUpper(c) == IF c \in LowerSet THEN Uppers[CHOOSE i \in 1..26 : Lowers[i] = c] ELSE c

ToLower(c) == IF c \in UpperSet THEN Lowers[CHOOSE i \in 1..26 : Uppers[i] = c] ELSE c

\* str.upper()
Upper(s) == [i \in 1..Len(s) |-> ToUpper(s[i])]

\* str.lower()
Lower(s) == [i \in 1..Len(s) |-> ToLower(s[i])]

\* text[i]
At(text, i) == text[i + 1]

\* text[i:j] for 0 <= i, with Python's clamping of j
Slice(text, i, j) == SubSeq(text, i + 1, IF j > Len(text) THEN Len(text) ELSE j)

\* str.startswith
StartsWith(s, prefix) ==
    Len(s) >= Len(prefix) /\ SubSeq(s, 1, Len(prefix)) = prefix

\* str.endswith
EndsWith(s, suffix) ==
    Len(s) >= Len(suffix) /\ SubSeq(s, Len(s) - Len(suffix) + 1, Len(s)) = suffix

RECURSIVE LStrip(_)
LStrip(s) == IF s # <<>> /\ IsSpace(Head(s)) THEN LStrip(Tail(s)) ELSE s

RECURSIVE RStrip(_)
RStrip(s) ==
    IF s # <<>> /\ IsSpace(s[Len(s)]) THEN RStrip(SubSeq(s, 1, Len(s) - 1)) ELSE s

\* str.strip()
Strip(s) == RStrip(LStrip(s))

\* str.replace('\\"', '"'): every backslash-quote pair becomes a quote
RECURSIVE ReplaceEscapedQuotes(_)
ReplaceEscapedQuotes(s) ==
    IF s = <<>> THEN <<>>
    ELSE IF Len(s) >= 2 /\ s[1] = "\\" /\ s[2] = "\""
         THEN <<"\"">> \o ReplaceEscapedQuotes(SubSeq(s, 3, Len(s)))
         ELSE <<s[1]>> \o ReplaceEscapedQuotes(Tail(s))

\* if value.startswith('"') and value.endswith('"'): value[1:-1].replace(...)
Unquote(value) ==
    IF StartsWith(value, <<"\"">>) /\ EndsWith(value, <<"\"">>)
    THEN ReplaceEscapedQuotes(SubSeq(value, 2, Len(value) - 1))
    ELSE value

\* ------------------------------------------------------------------------
\* Tokens
\* ------------------------------------------------------------------------

TokenType == {"AND", "OR", "NOT", "LPAREN", "RPAREN",
              "FIELD_OP_VALUE", "VALUE", "AI_FUNC", "EOF"}

\* Token(type, value).  The value of a FIELD_OP_VALUE token is the triple
\* (field, op, value), held in the three fields field, op and value; every
\* other token has field = op = <<>>, and EOF (value None) has value = <<>>.
Token(type, value) ==
    [type |-> type, field |-> <<>>, op |-> <<>>, value |-> value]

FieldToken(field, op, value) ==
    [type |-> "FIELD_OP_VALUE", field |-> field, op |-> op, value |-> value]

\* What a lexer call leaves behind: the token returned, Lexer.pos after the
\* call, and the exception raised ("None" when the call returns).
LexResult(tok, pos, exc) == [tok |-> tok, pos |-> pos, exc |-> exc]

\* ------------------------------------------------------------------------
\* Lexer: the two regular expressions
\* ------------------------------------------------------------------------

\* "(?:[^"\\]|\\.)*"  tried at index i of s, where s[i] is the opening quote:
\* the index just after the closing quote, or -1 when the alternative fails.
\* j scans the body: a backslash takes the next character with it (any
\* character but a newline), the first bare quote closes.
RECURSIVE QuotedBodyEnd(_, _)
QuotedBodyEnd(s, j) ==
    IF j >= Len(s) THEN -1
    ELSE IF At(s, j) = "\"" THEN j + 1
    ELSE IF At(s, j) = "\\"
         THEN IF j + 1 < Len(s) /\ At(s, j + 1) # "\n"
              THEN QuotedBodyEnd(s, j + 2)
              ELSE -1
         ELSE QuotedBodyEnd(s, j + 1)

QuotedAltEnd(s, i) ==
    IF i < Len(s) /\ At(s, i) = "\"" THEN QuotedBodyEnd(s, i + 1) ELSE -1

\* [^\s()]+ from index i: the index after the longest run (i when empty)
RECURSIVE WordRunEnd(_, _)
WordRunEnd(s, i) ==
    IF i < Len(s) /\ ~IsSpace(At(s, i)) /\ At(s, i) \notin {"(", ")"}
    THEN WordRunEnd(s, i + 1)
    ELSE i

\* [a-zA-Z_]+ from index i
RECURSIVE FieldRunEnd(_, _)
FieldRunEnd(s, i) ==
    IF i < Len(s) /\ (IsLetter(At(s, i)) \/ At(s, i) = "_")
    THEN FieldRunEnd(s, i + 1)
    ELSE i

\* [a-zA-Z]+ from index i
RECURSIVE LetterRunEnd(_, _)
LetterRunEnd(s, i) ==
    IF i < Len(s) /\ IsLetter(At(s, i)) THEN LetterRunEnd(s, i + 1) ELSE i

\* \s+ from index i
RECURSIVE SpaceRunEnd(_, _)
SpaceRunEnd(s, i) ==
    IF i < Len(s) /\ IsSpace(At(s, i)) THEN SpaceRunEnd(s, i + 1) ELSE i

\* ("(?:[^"\\]|\\.)*"|[^\s()]+) at index i: the end of the value, or -1.
\* The quoted alternative is tried first; the bare run only when it fails.
ValueGroupEnd(s, i) ==
    IF QuotedAltEnd(s, i) # -1 THEN QuotedAltEnd(s, i)
    ELSE IF WordRunEnd(s, i) > i THEN WordRunEnd(s, i)
    ELSE -1

NoFieldMatch ==
    [matched |-> FALSE, field |-> <<>>, has_op |-> FALSE,
     op |-> <<>>, value |-> <<>>, end |-> 0]

\* the match object: v3_end is the end of the value after field:op:, v2_end
\* the end of the value after field: alone.  The optional operator group is
\* greedy: it is taken when a value follows it, and given back (op None)
\* when only the two-part form matches.
FieldPatternGroups(s, f_end, o_end, v3_end, v2_end) ==
    IF v3_end # -1
    THEN [matched |-> TRUE, field |-> Slice(s, 0, f_end), has_op |-> TRUE,
          op |-> Slice(s, f_end + 1, o_end),
          value |-> Slice(s, o_end + 1, v3_end), end |-> v3_end]
    ELSE IF v2_end # -1
    THEN [matched |-> TRUE, field |-> Slice(s, 0, f_end), has_op |-> FALSE,
          op |-> <<>>, value |-> Slice(s, f_end + 1, v2_end), end |-> v2_end]
    ELSE NoFieldMatch

\* (?:([a-zA-Z]+):)?(value) after the field that ends at f_end, o_end the
\* end of the letters that follow the field's colon
FieldPatternOp(s, f_end, o_end) ==
    FieldPatternGroups(s, f_end, o_end,
        IF o_end > f_end + 1 /\ o_end < Len(s) /\ At(s, o_end) = ":"
        THEN ValueGroupEnd(s, o_end + 1) ELSE -1,
        ValueGroupEnd(s, f_end + 1))

\* FIELD_PATTERN.match(s):
\*   ([a-zA-Z_]+):(?:([a-zA-Z]+):)?("(?:[^"\\]|\\.)*"|[^\s()]+)
\* ([a-zA-Z_]+): first, the field run ending at f_end, then the rest
FIELD_PATTERN(s) ==
    LET f_end == FieldRunEnd(s, 0)
    IN  IF f_end > 0 /\ f_end < Len(s) /\ At(s, f_end) = ":"
        THEN FieldPatternOp(s, f_end, LetterRunEnd(s, f_end + 1))
        ELSE NoFieldMatch

\* (?:AND|OR)\s at index w, under re.IGNORECASE
BooleanWordAt(s, w) ==
    \/ /\ w + 3 < Len(s)
       /\ Upper(Slice(s, w, w + 3)) = <<"A","N","D">>
       /\ IsSpace(At(s, w + 3))
    \/ /\ w + 2 < Len(s)
       /\ Upper(Slice(s, w, w + 2)) = <<"O","R">>
       /\ IsSpace(At(s, w + 2))

\* A faulty lookahead that does not stop at a closing parenthesis
AiLookaheadNoParen(s, k) ==
    \/ k = Len(s)
    \/ k = Len(s) - 1 /\ At(s, k) = "\n"
    \/ SpaceRunEnd(s, k) > k /\ BooleanWordAt(s, SpaceRunEnd(s, k))

\* (?=\s+(?:AND|OR)\s|\)|$) at index k.  $ matches at the end of the string
\* and just before a newline that ends it.
AiLookahead(s, k) ==
    \/ k = Len(s)
    \/ k = Len(s) - 1 /\ At(s, k) = "\n"
    \/ k < Len(s) /\ At(s, k) = ")"
    \/ SpaceRunEnd(s, k) > k /\ BooleanWordAt(s, SpaceRunEnd(s, k))

\* A faulty prompt scan that ends the prompt at the first whitespace, as the
\* value of FIELD_PATTERN ends
RECURSIVE WordPromptEnd(_, _, _)
WordPromptEnd(s, i, k) ==
    IF k > Len(s) \/ At(s, k - 1) = "\n" THEN -1
    ELSE IF k = Len(s) \/ IsSpace(At(s, k)) \/ At(s, k) = ")" THEN k
    ELSE WordPromptEnd(s, i, k + 1)

\* .+? followed by the lookahead, from index i: the least k > i such that
\* s[i:k] holds no newline and the lookahead holds at k; -1 when there is none.
RECURSIVE LazyPromptEnd(_, _, _)
LazyPromptEnd(s, i, k) ==
    IF k > Len(s) \/ At(s, k - 1) = "\n" THEN -1
    ELSE IF AiLookahead(s, k) THEN k
    ELSE LazyPromptEnd(s, i, k + 1)

\* the match object for group 1 = s[3:end], or no match when end = -1
AiTextGroup(s, end) ==
    IF end # -1 THEN [matched |-> TRUE, group1 |-> Slice(s, 3, end), end |-> end]
    ELSE [matched |-> FALSE, group1 |-> <<>>, end |-> 0]

\* AI_TEXT_PATTERN.match(s):
\*   ai:("(?:[^"\\]|\\.)*"|.+?)(?=\s+(?:AND|OR)\s|\)|$)   re.IGNORECASE
\* Of the two alternatives of group 1, the quoted form is kept only when the
\* lookahead holds after it; otherwise the lazy form is tried from the same
\* place.
AI_TEXT_PATTERN(s) ==
    IF Len(s) >= 3 /\ Lower(Slice(s, 0, 2)) = <<"a","i">> /\ At(s, 2) = ":"
    THEN IF QuotedAltEnd(s, 3) # -1 /\ AiLookahead(s, QuotedAltEnd(s, 3))
         THEN AiTextGroup(s, QuotedAltEnd(s, 3))
         ELSE AiTextGroup(s, IF Len(s) >= 4 THEN LazyPromptEnd(s, 3, 4) ELSE -1)
    ELSE AiTextGroup(s, -1)

\* ------------------------------------------------------------------------
\* Lexer: scanning methods.  Each takes the lexer's text and pos and gives
\* the value read and the pos it leaves.
\* ------------------------------------------------------------------------

\* Lexer._skip_whitespace
RECURSIVE skip_whitespace(_, _)
skip_whitespace(text, pos) ==
    IF pos < Len(text) /\ IsSpace(At(text, pos))
    THEN skip_whitespace(text, pos + 1)
    ELSE pos

\* A faulty quoted-string loop whose escape branch lacks the test
\* `self.pos + 1 < self.length`: a backslash that ends the text makes it read
\* past the end
RECURSIVE read_quoted_loop_unguarded(_, _, _)
read_quoted_loop_unguarded(text, pos, result) ==
    IF pos < Len(text)
    THEN IF At(text, pos) = "\\"
         THEN IF pos + 1 < Len(text)
              THEN read_quoted_loop_unguarded(text, pos + 2,
                       Append(result, At(text, pos + 1)))
              ELSE [value |-> result, pos |-> pos + 1, exc |-> "IndexError"]
         ELSE IF At(text, pos) = "\""
              THEN [value |-> result, pos |-> pos + 1, exc |-> "None"]
              ELSE read_quoted_loop_unguarded(text, pos + 1,
                       Append(result, At(text, pos)))
    ELSE [value |-> result, pos |-> pos, exc |-> "None"]

\* the while loop of Lexer._read_quoted_string
RECURSIVE read_quoted_loop(_, _, _)
read_quoted_loop(text, pos, result) ==
    IF pos < Len(text)
    THEN IF At(text, pos) = "\\" /\ pos + 1 < Len(text)
         THEN read_quoted_loop(text, pos + 2, Append(result, At(text, pos + 1)))
         ELSE IF At(text, pos) = "\""
              THEN [value |-> result, pos |-> pos + 1, exc |-> "None"]
              ELSE read_quoted_loop(text, pos + 1, Append(result, At(text, pos)))
    ELSE [value |-> result, pos |-> pos, exc |-> "None"]

\* Lexer._read_quoted_string: the assert on the opening quote, then the loop.
\* An unterminated quote runs to the end of the text and returns what it read.
read_quoted_string(text, pos) ==
    IF pos >= Len(text)
    THEN [value |-> <<>>, pos |-> pos, exc |-> "IndexError"]
    ELSE IF At(text, pos) # "\""
    THEN [value |-> <<>>, pos |-> pos, exc |-> "AssertionError"]
    ELSE read_quoted_loop(text, pos + 1, <<>>)

\* Lexer._read_word
read_word(text, pos) ==
    [value |-> Slice(text, pos, WordRunEnd(text, pos)),
     pos |-> WordRunEnd(text, pos), exc |-> "None"]

\* the inner while loop of Lexer._read_balanced_parens, entered after an
\* opening quote: copies up to the closing quote and stops ON it (or at the
\* end of the text)
RECURSIVE read_balanced_quote(_, _, _)
read_balanced_quote(text, pos, result) ==
    IF pos < Len(text)
    THEN IF At(text, pos) = "\\" /\ pos + 1 < Len(text)
         THEN read_balanced_quote(text, pos + 2,
                  result \o <<At(text, pos), At(text, pos + 1)>>)
         ELSE IF At(text, pos) = "\""
              THEN [value |-> Append(result, At(text, pos)), pos |-> pos]
              ELSE read_balanced_quote(text, pos + 1, Append(result, At(text, pos)))
    ELSE [value |-> result, pos |-> pos]

\* A faulty outer loop without the branch for the double quote: parentheses
\* inside quoted substrings are counted
RECURSIVE read_balanced_loop_unquoted(_, _, _, _)
read_balanced_loop_unquoted(text, pos, depth, result) ==
    IF pos < Len(text) /\ depth > 0
    THEN IF At(text, pos) = "("
         THEN read_balanced_loop_unquoted(text, pos + 1, depth + 1, Append(result, "("))
         ELSE IF At(text, pos) = ")"
         THEN read_balanced_loop_unquoted(text, pos + 1, depth - 1,
                  IF depth - 1 > 0 THEN Append(result, ")") ELSE result)
         ELSE read_balanced_loop_unquoted(text, pos + 1, depth,
                  Append(result, At(text, pos)))
    ELSE [value |-> result, pos |-> pos, exc |-> "None"]

\* the outer while loop of Lexer._read_balanced_parens
RECURSIVE read_balanced_loop(_, _, _, _)
read_balanced_loop(text, pos, depth, result) ==
    IF pos < Len(text) /\ depth > 0
    THEN IF At(text, pos) = "("
         THEN read_balanced_loop(text, pos + 1, depth + 1, Append(result, "("))
         ELSE IF At(text, pos) = ")"
         THEN read_balanced_loop(text, pos + 1, depth - 1,
                  IF depth - 1 > 0 THEN Append(result, ")") ELSE result)
         ELSE IF At(text, pos) = "\""
         THEN \* the quoted stretch, then `self.pos += 1`
              LET q == read_balanced_quote(text, pos + 1, Append(result, "\""))
              IN  read_balanced_loop(text, q.pos + 1, depth, q.value)
         ELSE read_balanced_loop(text, pos + 1, depth, Append(result, At(text, pos)))
    ELSE [value |-> result, pos |-> pos, exc |-> "None"]

\* Lexer._read_balanced_parens: the assert on the opening parenthesis, then
\* the loop.  Running out of text with depth > 0 returns what was read.
read_balanced_parens(text, pos) ==
    IF pos >= Len(text)
    THEN [value |-> <<>>, pos |-> pos, exc |-> "IndexError"]
    ELSE IF At(text, pos) # "("
    THEN [value |-> <<>>, pos |-> pos, exc |-> "AssertionError"]
    ELSE read_balanced_loop(text, pos + 1, 1, <<>>)

\* ------------------------------------------------------------------------
\* Lexer.next_token
\* ------------------------------------------------------------------------

\* remaining.upper().startswith(kw + ' ') or remaining.upper().startswith(kw + c)
KeywordAhead(remaining, kw, c) ==
    \/ StartsWith(Upper(Slice(remaining, 0, Len(kw) + 1)), kw \o <<" ">>)
    \/ StartsWith(Upper(Slice(remaining, 0, Len(kw) + 1)), kw \o <<c>>)

\* the token of a scanning method's outcome r
Scanned(type, r) == LexResult(Token(type, r.value), r.pos, r.exc)

\* the branch for ai:prompt, m the match of AI_TEXT_PATTERN
AiTextToken(p, m) ==
    LexResult(FieldToken(<<"a","i">>, <<"m","t">>, Unquote(Strip(m.group1))),
              p + m.end, "None")

\* A faulty field branch that takes a missing operator to be 'eq'
FieldOpValueTokenDefaultEq(p, m) ==
    LexResult(FieldToken(Lower(m.field),
                         Lower(IF m.has_op THEN m.op ELSE <<"e","q">>),
                         Unquote(m.value)),
              p + m.end, "None")

\* the branch for field:op:value and field:value, m the match of FIELD_PATTERN
FieldOpValueToken(p, m) ==
    LexResult(FieldToken(Lower(m.field),
                         Lower(IF m.has_op THEN m.op ELSE <<"m","t">>),
                         Unquote(m.value)),
              p + m.end, "None")

\* `if word:` after _read_word, r its outcome
WordToken(r) ==
    IF r.value # <<>> THEN Scanned("VALUE", r)
    ELSE LexResult(Token("EOF", <<>>), r.pos, "None")

\* the last two branches: a quoted string or a bare word as a VALUE token
ValueToken(text, p) ==
    IF At(text, p) = "\"" THEN Scanned("VALUE", read_quoted_string(text, p))
    ELSE WordToken(read_word(text, p))

\* the three pattern branches in the order of the code: ai_text_match the
\* match of AI_TEXT_PATTERN, match the match of FIELD_PATTERN
PatternToken(text, p, ai_text_match, match) ==
    IF ai_text_match.matched THEN AiTextToken(p, ai_text_match)
    ELSE IF match.matched THEN FieldOpValueToken(p, match)
    ELSE ValueToken(text, p)

\* next_token from `remaining = self.text[self.pos:]` on
KeywordOrPattern(text, p, remaining) ==
    IF KeywordAhead(remaining, <<"A","N","D">>, ")")
    THEN LexResult(Token("AND", <<"A","N","D">>), p + 3, "None")
    ELSE IF KeywordAhead(remaining, <<"O","R">>, ")")
    THEN LexResult(Token("OR", <<"O","R">>), p + 2, "None")
    ELSE IF KeywordAhead(remaining, <<"N","O","T">>, "(")
    THEN LexResult(Token("NOT", <<"N","O","T">>), p + 3, "None")
    ELSE IF StartsWith(Lower(Slice(remaining, 0, 3)), <<"a","i","(">>)
    THEN \* ai(subquery): skip 'ai', read the balanced parentheses
         Scanned("AI_FUNC", read_balanced_parens(text, p + 2))
    ELSE PatternToken(text, p, AI_TEXT_PATTERN(remaining), FIELD_PATTERN(remaining))

\* A faulty lexer that rewinds to the start of the text when it reaches
\* the end
TokenAtRewinding(text, p) ==
    IF p >= Len(text) THEN LexResult(Token("EOF", <<>>), 0, "None")
    ELSE IF At(text, p) = "(" THEN LexResult(Token("LPAREN", <<"(">>), p + 1, "None")
    ELSE IF At(text, p) = ")" THEN LexResult(Token("RPAREN", <<")">>), p + 1, "None")
    ELSE KeywordOrPattern(text, p, Slice(text, p, Len(text)))

\* next_token after _skip_whitespace has moved pos to p
TokenAt(text, p) ==
    IF p >= Len(text) THEN LexResult(Token("EOF", <<>>), p, "None")
    ELSE IF At(text, p) = "(" THEN LexResult(Token("LPAREN", <<"(">>), p + 1, "None")
    ELSE IF At(text, p) = ")" THEN LexResult(Token("RPAREN", <<")">>), p + 1, "None")
    ELSE KeywordOrPattern(text, p, Slice(text, p, Len(text)))

next_token(text, pos) == TokenAt(text, skip_whitespace(text, pos))

\* ------------------------------------------------------------------------
\* AST nodes
\* ------------------------------------------------------------------------

AndNode(left, right) == [type |-> "AndNode", left |-> left, right |-> right]

OrNode(left, right) == [type |-> "OrNode", left |-> left, right |-> right]

NotNode(child) == [type |-> "NotNode", child |-> child]

FieldCondition(field, operator, value) ==
    [type |-> "FieldCondition", field |-> field, operator |-> operator, value |-> value]

TextSearch(value) == [type |-> "TextSearch", value |-> value]

AITextSearch(prompt) == [type |-> "AITextSearch", prompt |-> prompt]

AISubquerySearch(subquery) == [type |-> "AISubquerySearch", subquery |-> subquery]

\* Python's None, where an AST or a result is optional
None == [type |-> "None"]

\* ------------------------------------------------------------------------
\* Parser.  The parser object is its lexer's pos and its current token; a
\* method's outcome is the exception raised ("None" when it returns), the
\* node returned and the parser object it leaves.
\* ------------------------------------------------------------------------

ParserState(pos, current) == [pos |-> pos, current |-> current]

Returned(node, st) == [exc |-> "None", node |-> node, st |-> st]

Raised(exc, st) == [exc |-> exc, node |-> None, st |-> st]

\* the parser after a next_token call whose outcome is r, and the exception
\* of the lexer if it raised
Advanced(r) == [exc |-> r.exc, st |-> ParserState(r.pos, r.tok)]

\* Parser._advance (and the first next_token call of Parser.__init__)
_advance(text, st) == Advanced(next_token(text, st.pos))

\* A faulty _expect that advances whatever the current token is
_expect_any(text, st, token_type) == _advance(text, st)

\* Parser._expect
_expect(text, st, token_type) ==
    IF st.current.type # token_type THEN [exc |-> "ValueError", st |-> st]
    ELSE _advance(text, st)

\* what parse_query gives its caller: the exception raised ("None" when it
\* returns) and the AST
Parsed(exc, node) == [exc |-> exc, node |-> node]

\* The methods of Parser and parse_query call one another.  Each takes the
\* lexer text and the parser st; an operator whose last parameter is the
\* outcome of a call is the rest of the method after that call.
RECURSIVE parse_query(_)
RECURSIVE _or_expr(_, _)
RECURSIVE OrWhile(_, _, _)
RECURSIVE OrRight(_, _, _)
RECURSIVE _and_expr(_, _)
RECURSIVE AndWhile(_, _, _)
RECURSIVE AndRight(_, _, _)
RECURSIVE _term(_, _)
RECURSIVE _atom(_, _)

\* _or_expr after `left = self._and_expr()` with outcome l
OrLeft(text, l) ==
    IF l.exc # "None" THEN l ELSE OrWhile(text, l.st, l.node)

_or_expr(text, st) == OrLeft(text, _and_expr(text, st))

\* A faulty OR loop that reads a single term as the right operand, so that
\* OR binds as tightly as AND
OrAdvancedTerm(text, left, a) ==
    IF a.exc # "None" THEN Raised(a.exc, a.st)
    ELSE OrRight(text, left, _term(text, a.st))

\* the body of the while loop of _or_expr after self._advance() with outcome a
OrAdvanced(text, left, a) ==
    IF a.exc # "None" THEN Raised(a.exc, a.st)
    ELSE OrRight(text, left, _and_expr(text, a.st))

\* the while loop of _or_expr
OrWhile(text, st, left) ==
    IF st.current.type = "OR" THEN OrAdvanced(text, left, _advance(text, st))
    ELSE Returned(left, st)

\* after `right = self._and_expr()` with outcome r
OrRight(text, left, r) ==
    IF r.exc # "None" THEN r ELSE OrWhile(text, r.st, OrNode(left, r.node))

\* _and_expr after `left = self._term()` with outcome l
AndLeft(text, l) ==
    IF l.exc # "None" THEN l ELSE AndWhile(text, l.st, l.node)

_and_expr(text, st) == AndLeft(text, _term(text, st))

\* A faulty loop body that takes an AND keyword which no term follows for a
\* syntax error
AndAdvancedStrict(text, left, a) ==
    IF a.exc # "None" THEN Raised(a.exc, a.st)
    ELSE IF a.st.current.type \in {"NOT", "LPAREN", "FIELD_OP_VALUE", "VALUE", "AI_FUNC"}
    THEN AndRight(text, left, _term(text, a.st))
    ELSE Raised("ValueError", a.st)

\* the body of the while loop of _and_expr after its first if, a the outcome
\* of the _advance that consumed an AND keyword (or the parser untouched):
\* a term is read only when a token that starts a term follows
AndAdvanced(text, left, a) ==
    IF a.exc # "None" THEN Raised(a.exc, a.st)
    ELSE IF a.st.current.type \in {"NOT", "LPAREN", "FIELD_OP_VALUE", "VALUE", "AI_FUNC"}
    THEN AndRight(text, left, _term(text, a.st))
    ELSE Returned(left, a.st)

\* A faulty AND loop that goes on only at an AND keyword, so that a term
\* which merely follows another is left unread
AndWhileKeywordOnly(text, st, left) ==
    IF st.current.type = "AND" THEN AndAdvanced(text, left, _advance(text, st))
    ELSE Returned(left, st)

\* the while loop of _and_expr
AndWhile(text, st, left) ==
    IF st.current.type \in {"AND", "NOT", "LPAREN", "FIELD_OP_VALUE", "VALUE", "AI_FUNC"}
    THEN AndAdvanced(text, left,
             IF st.current.type = "AND" THEN _advance(text, st)
             ELSE [exc |-> "None", st |-> st])
    ELSE Returned(left, st)

\* after `right = self._term()` with outcome r
AndRight(text, left, r) ==
    IF r.exc # "None" THEN r ELSE AndWhile(text, r.st, AndNode(left, r.node))

\* _term after `child = self._atom()` with outcome c
TermChild(c) ==
    IF c.exc # "None" THEN c ELSE Returned(NotNode(c.node), c.st)

\* _term after the self._advance() that consumed NOT, with outcome a
TermAdvanced(text, a) ==
    IF a.exc # "None" THEN Raised(a.exc, a.st)
    ELSE TermChild(_atom(text, a.st))

_term(text, st) ==
    IF st.current.type = "NOT" THEN TermAdvanced(text, _advance(text, st))
    ELSE _atom(text, st)

\* _atom's group after self._expect(TokenType.RPAREN) with outcome e
GroupExpected(n, e) ==
    IF e.exc # "None" THEN Raised(e.exc, e.st) ELSE Returned(n.node, e.st)

\* _atom's group after `node = self._or_expr()` with outcome n
GroupNode(text, n) ==
    IF n.exc # "None" THEN n
    ELSE GroupExpected(n, _expect(text, n.st, "RPAREN"))

\* _atom's group after the self._advance() that consumed '(', with outcome a
GroupAdvanced(text, a) ==
    IF a.exc # "None" THEN Raised(a.exc, a.st)
    ELSE GroupNode(text, _or_expr(text, a.st))

\* _atom on AI_FUNC after `subquery_ast = parse_query(subquery_str)` with
\* outcome sub, the parser st already advanced
SubqueryParsed(st, sub) ==
    IF sub.exc # "None" THEN Raised(sub.exc, st)
    ELSE Returned(AISubquerySearch(sub.node), st)

\* _atom on AI_FUNC after self._advance() with outcome a: the captured text
\* goes through parse_query, with a lexer and a parser of its own
SubqueryAdvanced(subquery_str, a) ==
    IF a.exc # "None" THEN Raised(a.exc, a.st)
    ELSE SubqueryParsed(a.st, parse_query(subquery_str))

\* _atom on the FIELD_OP_VALUE or VALUE token current after self._advance()
\* with outcome a: the leaf for the token
LeafAdvanced(current, a) ==
    IF a.exc # "None" THEN Raised(a.exc, a.st)
    ELSE IF current.type = "VALUE" THEN Returned(TextSearch(current.value), a.st)
    ELSE IF current.field = <<"a","i">> THEN Returned(AITextSearch(current.value), a.st)
    ELSE Returned(FieldCondition(current.field, current.op, current.value), a.st)

_atom(text, st) ==
    IF st.current.type = "LPAREN" THEN GroupAdvanced(text, _advance(text, st))
    ELSE IF st.current.type = "AI_FUNC"
    THEN SubqueryAdvanced(st.current.value, _advance(text, st))
    ELSE IF st.current.type \in {"FIELD_OP_VALUE", "VALUE"}
    THEN LeafAdvanced(st.current, _advance(text, st))
    ELSE Raised("ValueError", st)

\* what parse() gives for the outcome r of _or_expr.  Whatever the lexer has
\* not yet produced when _or_expr returns is never looked at.
ParseReturned(r) == Parsed(r.exc, r.node)

\* Parser(lexer).parse(), init the outcome of the next_token call of __init__
parse(text, init) ==
    IF init.exc # "None" THEN Parsed(init.exc, None)
    ELSE IF init.st.current.type = "EOF" THEN Parsed("None", TextSearch(<<>>))
    ELSE ParseReturned(_or_expr(text, init.st))

\* parse_query after `query = query.strip()`
ParseStripped(query) ==
    IF query = <<>> THEN Parsed("None", TextSearch(<<>>))
    ELSE parse(query, _advance(query, ParserState(0, Token("None", <<>>))))

parse_query(query) == ParseStripped(Strip(query))

\* ------------------------------------------------------------------------
\* Field and operator catalogs
\* ------------------------------------------------------------------------

FIELD_MAP ==
    (<<"c">> :> "category") @@
    (<<"c","a","t","e","g","o","r","y">> :> "category") @@
    (<<"g">> :> "genre") @@
    (<<"g","e","n","r","e">> :> "genre") @@
    (<<"a">> :> "artist") @@
    (<<"a","r","t","i","s","t">> :> "artist") @@
    (<<"l">> :> "album") @@
    (<<"a","l","b","u","m">> :> "album") @@
    (<<"n">> :> "title") @@
    (<<"t","i","t","l","e">> :> "title") @@
    (<<"t">> :> "tag") @@
    (<<"t","a","g">> :> "tag") @@
    (<<"i","n">> :> "playlist") @@
    (<<"p","l","a","y","l","i","s","t">> :> "playlist") @@
    (<<"p">> :> "file") @@
    (<<"p","a","t","h">> :> "file") @@
    (<<"f","i","l","e">> :> "file") @@
    (<<"f">> :> "filename") @@
    (<<"f","i","l","e","n","a","m","e">> :> "filename") @@
    (<<"u">> :> "uuid") @@
    (<<"u","u","i","d">> :> "uuid") @@
    (<<"y","e","a","r">> :> "year") @@
    (<<"b","p","m">> :> "bpm") @@
    (<<"d","u","r","a","t","i","o","n">> :> "duration_seconds") @@
    (<<"d","u","r">> :> "duration_seconds") @@
    (<<"a","a">> :> "album_artist") @@
    (<<"a","l","b","u","m","a","r","t","i","s","t">> :> "album_artist") @@
    (<<"a","l","b","u","m","_","a","r","t","i","s","t">> :> "album_artist") @@
    (<<"t","r","a","c","k">> :> "track_number") @@
    (<<"t","r","a","c","k","_","n","u","m","b","e","r">> :> "track_number") @@
    (<<"d","i","s","c">> :> "disc_number") @@
    (<<"d","i","s","c","_","n","u","m","b","e","r">> :> "disc_number")

OPERATOR_MAP ==
    (<<"e","q">> :> "=") @@
    (<<"n","e">> :> "!=") @@
    (<<"m","t">> :> "LIKE") @@
    (<<"n","m">> :> "NOT LIKE") @@
    (<<"g","t">> :> ">") @@
    (<<"l","t">> :> "<") @@
    (<<"g","t","e">> :> ">=") @@
    (<<"l","t","e">> :> "<=")

NUMERIC_FIELDS == {"year", "bpm", "duration_seconds", "track_number", "disc_number"}

\* ------------------------------------------------------------------------
\* Bound parameters and Python's int() and float() on a string
\* ------------------------------------------------------------------------

\* a str parameter
StrParam(v) == [type |-> "str", v |-> v]

\* an int parameter
IntParam(n) == [type |-> "int", n |-> n]

\* a float parameter: nan, inf, -inf, or the finite value mant * 10^exp with
\* mant not a multiple of 10 (0 is mant = 0, exp = 0)
FloatParam(special, mant, exp) ==
    [type |-> "float", special |-> special, mant |-> mant, exp |-> exp]

IsDigit(c) == c \in DigitSet

DigitValue(c) == (CHOOSE i \in 1..10 : Digits[i] = c) - 1

\* digit (["_"] digit)* from index i: the index after the longest such run
\* (i when s[i] is no digit)
RECURSIVE DigitPartRest(_, _)
DigitPartRest(s, j) ==
    IF j < Len(s) /\ IsDigit(At(s, j)) THEN DigitPartRest(s, j + 1)
    ELSE IF j + 1 < Len(s) /\ At(s, j) = "_" /\ IsDigit(At(s, j + 1))
    THEN DigitPartRest(s, j + 2)
    ELSE j

DigitPartEnd(s, i) ==
    IF i < Len(s) /\ IsDigit(At(s, i)) THEN DigitPartRest(s, i + 1) ELSE i

\* the number the digits of s[i:j] write, underscores skipped, after acc
RECURSIVE DigitsValue(_, _, _, _)
DigitsValue(s, i, j, acc) ==
    IF i >= j THEN acc
    ELSE IF At(s, i) = "_" THEN DigitsValue(s, i + 1, j, acc)
    ELSE DigitsValue(s, i + 1, j, acc * 10 + DigitValue(At(s, i)))

\* how many digits s[i:j] holds
RECURSIVE DigitCount(_, _, _)
DigitCount(s, i, j) ==
    IF i >= j THEN 0
    ELSE (IF At(s, i) = "_" THEN 0 ELSE 1) + DigitCount(s, i + 1, j)

HasSign(t, i) == i < Len(t) /\ At(t, i) \in {"+", "-"}

\* int() on the stripped text t: an optional sign, then digits to the end
IntStripped(t) ==
    LET from == IF HasSign(t, 0) THEN 1 ELSE 0
        end  == DigitPartEnd(t, from)
    IN  IF end > from /\ end = Len(t)
        THEN [ok |-> TRUE,
              n |-> IF At(t, 0) = "-" THEN 0 - DigitsValue(t, from, end, 0)
                    ELSE DigitsValue(t, from, end, 0)]
        ELSE [ok |-> FALSE, n |-> 0]

\* int(s): [ok, n]; ok = FALSE is ValueError
PyInt(s) == IntStripped(Strip(s))

\* mant * 10^exp with the factors of ten moved out of mant
RECURSIVE Normalized(_, _)
Normalized(mant, exp) ==
    IF mant = 0 THEN FloatParam("finite", 0, 0)
    ELSE IF mant % 10 = 0 THEN Normalized(mant \div 10, exp + 1)
    ELSE FloatParam("finite", mant, exp)

NotFloat == [ok |-> FALSE, value |-> FloatParam("nan", 0, 0)]

\* the value of the numeral: integer digits t[from:i_end], fraction digits
\* t[f_from:f_end], exponent digits t[x_from:x_end] (none when has_e is
\* false), which must end the text
FloatValue(t, from, i_end, f_from, f_end, has_e, x_from, x_end) ==
    IF (has_e => x_end > x_from) /\ x_end = Len(t)
    THEN [ok |-> TRUE,
          value |-> Normalized(
              (IF At(t, 0) = "-" THEN 0 - 1 ELSE 1)
                  * DigitsValue(t, f_from, f_end, DigitsValue(t, from, i_end, 0)),
              (IF has_e
               THEN (IF At(t, f_end + 1) = "-" THEN 0 - 1 ELSE 1)
                        * DigitsValue(t, x_from, x_end, 0)
               ELSE 0) - DigitCount(t, f_from, f_end))]
    ELSE NotFloat

\* after the mantissa, which needs a digit before or after the point: the
\* exponent part, which starts at x_from when has_e
FloatMantissa(t, from, i_end, f_from, f_end) ==
    LET has_e  == f_end < Len(t) /\ At(t, f_end) \in {"e", "E"}
        x_from == IF HasSign(t, f_end + 1) THEN f_end + 2 ELSE f_end + 1
    IN  IF i_end > from \/ f_end > f_from
        THEN FloatValue(t, from, i_end, f_from, f_end, has_e, x_from,
                        IF has_e THEN DigitPartEnd(t, x_from) ELSE f_end)
        ELSE NotFloat

\* after the integer digits, which end at i_end
FloatFraction(t, from, i_end) ==
    IF i_end < Len(t) /\ At(t, i_end) = "."
    THEN FloatMantissa(t, from, i_end, i_end + 1, DigitPartEnd(t, i_end + 1))
    ELSE FloatMantissa(t, from, i_end, i_end, i_end)

\* float() on the stripped text t after its sign, word the rest in lower case
FloatSigned(t, from, word) ==
    IF word \in {<<"i","n","f">>, <<"i","n","f","i","n","i","t","y">>}
    THEN [ok |-> TRUE,
          value |-> FloatParam(IF At(t, 0) = "-" THEN "-inf" ELSE "inf", 0, 0)]
    ELSE IF word = <<"n","a","n">>
    THEN [ok |-> TRUE, value |-> FloatParam("nan", 0, 0)]
    ELSE FloatFraction(t, from, DigitPartEnd(t, from))

\* float() on the stripped text t
FloatStripped(t) ==
    IF HasSign(t, 0) THEN FloatSigned(t, 1, Lower(Slice(t, 1, Len(t))))
    ELSE FloatSigned(t, 0, Lower(t))

\* float(s): [ok, value]; ok = FALSE is ValueError.  Accepts a decimal
\* numeral with optional fraction and exponent, and the words inf, infinity
\* and nan in any letter case.
PyFloat(s) == FloatStripped(Strip(s))

\* ------------------------------------------------------------------------
\* Predicate compiler.  A template is the sequence of the pieces of the SQL
\* string, each positional placeholder "?" a piece of its own; an outcome is
\* the exception raised ("None" when it returns), the template and the
\* parameter list.
\* ------------------------------------------------------------------------

Compiled(sql, params) == [exc |-> "None", sql |-> sql, params |-> params]

CompileError(exc) == [exc |-> exc, sql |-> <<>>, params |-> <<>>]

\* f'%{value}%'
Wildcard(value) == <<"%">> \o value \o <<"%">>

\* `if not user_id`: None and the empty string are both no identity
NoUser(user_id) == user_id = None \/ user_id = StrParam(<<>>)

\* A faulty tag branch that binds the tag name but not the user: the parity
\* of placeholders and parameters must tell it from TagCondition
TagConditionUnboundUser(cond, user_id) ==
    IF NoUser(user_id) THEN Compiled(<<"1=0">>, <<>>)
    ELSE Compiled(<<"uuid IN (SELECT song_uuid FROM song_tags st ",
                    "JOIN tags t ON st.tag_id = t.id ",
                    "WHERE t.name = ", "?", " AND st.user_id = ", "?", ")">>,
                  <<StrParam(cond.value)>>)

\* A faulty tag branch that, without a viewer, matches the tag of any user
TagConditionAnyViewer(cond, user_id) ==
    IF NoUser(user_id)
    THEN Compiled(<<"uuid IN (SELECT song_uuid FROM song_tags st ",
                    "JOIN tags t ON st.tag_id = t.id ",
                    "WHERE t.name = ", "?", ")">>,
                  <<StrParam(cond.value)>>)
    ELSE Compiled(<<"uuid IN (SELECT song_uuid FROM song_tags st ",
                    "JOIN tags t ON st.tag_id = t.id ",
                    "WHERE t.name = ", "?", " AND st.user_id = ", "?", ")">>,
                  <<StrParam(cond.value), user_id>>)

\* _build_field_condition, db_field == 'tag'
TagCondition(cond, user_id) ==
    IF NoUser(user_id) THEN Compiled(<<"1=0">>, <<>>)
    ELSE Compiled(<<"uuid IN (SELECT song_uuid FROM song_tags st ",
                    "JOIN tags t ON st.tag_id = t.id ",
                    "WHERE t.name = ", "?", " AND st.user_id = ", "?", ")">>,
                  <<StrParam(cond.value), user_id>>)

\* A playlist branch in which the operator's polarity reaches the predicate:
\* NOT LIKE and != are compiled as such
PlaylistConditionPolar(cond, sql_op, user_id) ==
    LET like           == sql_op \in {"LIKE", "NOT LIKE"}
        name_condition == IF like THEN <<"p.name ", sql_op, " ", "?">>
                          ELSE <<"p.name ", sql_op, " ", "?", " COLLATE NOCASE">>
        name_value     == IF like THEN Wildcard(cond.value) ELSE cond.value
        head           == <<"uuid IN (SELECT ps.song_uuid FROM playlist_songs ps ",
                            "JOIN playlists p ON ps.playlist_id = p.id ",
                            "WHERE ">>
    IN  IF ~NoUser(user_id)
        THEN Compiled(head \o name_condition
                           \o <<" AND (p.user_id = ", "?", " OR p.is_public = 1))">>,
                      <<StrParam(name_value), user_id>>)
        ELSE Compiled(head \o name_condition \o <<" AND p.is_public = 1)">>,
                      <<StrParam(name_value)>>)

\* A faulty playlist branch that, without a viewer, searches private
\* playlists too
PlaylistConditionUnrestricted(cond, sql_op, user_id) ==
    LET like           == sql_op \in {"LIKE", "NOT LIKE"}
        name_condition == IF like THEN <<"p.name LIKE ", "?">>
                          ELSE <<"p.name = ", "?", " COLLATE NOCASE">>
        name_value     == IF like THEN Wildcard(cond.value) ELSE cond.value
        head           == <<"uuid IN (SELECT ps.song_uuid FROM playlist_songs ps ",
                            "JOIN playlists p ON ps.playlist_id = p.id ",
                            "WHERE ">>
    IN  IF ~NoUser(user_id)
        THEN Compiled(head \o name_condition
                           \o <<" AND (p.user_id = ", "?", " OR p.is_public = 1))">>,
                      <<StrParam(name_value), user_id>>)
        ELSE Compiled(head \o name_condition \o <<")">>, <<StrParam(name_value)>>)

\* _build_field_condition, db_field == 'playlist'
PlaylistCondition(cond, sql_op, user_id) ==
    LET like           == sql_op \in {"LIKE", "NOT LIKE"}
        name_condition == IF like THEN <<"p.name LIKE ", "?">>
                          ELSE <<"p.name = ", "?", " COLLATE NOCASE">>
        name_value     == IF like THEN Wildcard(cond.value) ELSE cond.value
        head           == <<"uuid IN (SELECT ps.song_uuid FROM playlist_songs ps ",
                            "JOIN playlists p ON ps.playlist_id = p.id ",
                            "WHERE ">>
    IN  IF ~NoUser(user_id)
        THEN Compiled(head \o name_condition
                           \o <<" AND (p.user_id = ", "?", " OR p.is_public = 1))">>,
                      <<StrParam(name_value), user_id>>)
        ELSE Compiled(head \o name_condition \o <<" AND p.is_public = 1)">>,
                      <<StrParam(name_value)>>)

\* _build_field_condition, db_field == 'filename'
FilenameCondition(cond, sql_op) ==
    Compiled(<<"SUBSTR(file, LENGTH(file) - LENGTH(REPLACE(file, '/', '')) + 1) ",
               sql_op, " ", "?">>,
             <<StrParam(IF sql_op \in {"LIKE", "NOT LIKE"}
                        THEN Wildcard(cond.value) ELSE cond.value)>>)

\* _build_field_condition, db_field in NUMERIC_FIELDS: int(), then float(),
\* then ValueError
NumericCondition(cond, db_field, sql_op) ==
    IF PyInt(cond.value).ok
    THEN Compiled(<<db_field, " ", sql_op, " ", "?">>, <<IntParam(PyInt(cond.value).n)>>)
    ELSE IF PyFloat(cond.value).ok
    THEN Compiled(<<db_field, " ", sql_op, " ", "?">>, <<PyFloat(cond.value).value>>)
    ELSE CompileError("ValueError")

\* _build_field_condition after the two lookups
MappedCondition(cond, db_field, sql_op, user_id) ==
    IF db_field = "tag" THEN TagCondition(cond, user_id)
    ELSE IF db_field = "playlist" THEN PlaylistCondition(cond, sql_op, user_id)
    ELSE IF db_field = "filename" THEN FilenameCondition(cond, sql_op)
    ELSE IF sql_op = "LIKE"
    THEN Compiled(<<db_field, " LIKE ", "?">>, <<StrParam(Wildcard(cond.value))>>)
    ELSE IF sql_op = "NOT LIKE"
    THEN Compiled(<<db_field, " NOT LIKE ", "?">>, <<StrParam(Wildcard(cond.value))>>)
    ELSE IF db_field \in NUMERIC_FIELDS
    THEN NumericCondition(cond, db_field, sql_op)
    ELSE IF sql_op \in {"=", "!="}
    THEN Compiled(<<db_field, " ", sql_op, " ", "?", " COLLATE NOCASE">>,
                  <<StrParam(cond.value)>>)
    ELSE Compiled(<<db_field, " ", sql_op, " ", "?">>, <<StrParam(cond.value)>>)

\* A faulty _build_field_condition that looks the operator up only after the
\* tag branch, which never uses it
_build_field_condition_tag_first(cond, user_id) ==
    IF cond.field \notin DOMAIN FIELD_MAP THEN CompileError("ValueError")
    ELSE IF FIELD_MAP[cond.field] = "tag" THEN TagCondition(cond, user_id)
    ELSE IF cond.operator \notin DOMAIN OPERATOR_MAP THEN CompileError("ValueError")
    ELSE MappedCondition(cond, FIELD_MAP[cond.field], OPERATOR_MAP[cond.operator],
                         user_id)

_build_field_condition(cond, user_id) ==
    IF cond.field \notin DOMAIN FIELD_MAP THEN CompileError("ValueError")
    ELSE IF cond.operator \notin DOMAIN OPERATOR_MAP THEN CompileError("ValueError")
    ELSE MappedCondition(cond, FIELD_MAP[cond.field], OPERATOR_MAP[cond.operator],
                         user_id)

\* A faulty _build_text_search that binds the value as it is, without the
\* wildcards around it
_build_text_search_bare(search) ==
    IF search.value = <<>> THEN Compiled(<<"1=1">>, <<>>)
    ELSE Compiled(<<"(", "title LIKE ", "?", " OR ", "artist LIKE ", "?", " OR ",
                    "album LIKE ", "?", " OR ", "category LIKE ", "?", " OR ",
                    "genre LIKE ", "?", ")">>,
                  [i \in 1..5 |-> StrParam(search.value)])

\* _build_text_search
_build_text_search(search) ==
    IF search.value = <<>> THEN Compiled(<<"1=1">>, <<>>)
    ELSE Compiled(<<"(", "title LIKE ", "?", " OR ", "artist LIKE ", "?", " OR ",
                    "album LIKE ", "?", " OR ", "category LIKE ", "?", " OR ",
                    "genre LIKE ", "?", ")">>,
                  [i \in 1..5 |-> StrParam(Wildcard(search.value))])

\* A faulty connective that lists the parameters of the right child first
ConnectiveRightFirst(word, l, r) ==
    IF l.exc # "None" THEN l
    ELSE IF r.exc # "None" THEN r
    ELSE Compiled(<<"(">> \o l.sql \o <<word>> \o r.sql \o <<")">>, r.params \o l.params)

\* build_sql on AndNode and OrNode, l and r the outcomes for the children
\* (the left child is compiled first, so its exception is the one raised)
Connective(word, l, r) ==
    IF l.exc # "None" THEN l
    ELSE IF r.exc # "None" THEN r
    ELSE Compiled(<<"(">> \o l.sql \o <<word>> \o r.sql \o <<")">>, l.params \o r.params)

RECURSIVE build_sql(_, _)
build_sql(ast, user_id) ==
    IF ast.type = "AndNode"
    THEN Connective(" AND ", build_sql(ast.left, user_id), build_sql(ast.right, user_id))
    ELSE IF ast.type = "OrNode"
    THEN Connective(" OR ", build_sql(ast.left, user_id), build_sql(ast.right, user_id))
    ELSE IF ast.type = "NotNode"
    THEN LET c == build_sql(ast.child, user_id) IN
         IF c.exc # "None" THEN c
         ELSE Compiled(<<"NOT (">> \o c.sql \o <<")">>, c.params)
    ELSE IF ast.type = "FieldCondition" THEN _build_field_condition(ast, user_id)
    ELSE IF ast.type = "TextSearch" THEN _build_text_search(ast)
    ELSE IF ast.type = "AITextSearch" THEN Compiled(<<"1=1">>, <<>>)
    ELSE IF ast.type = "AISubquerySearch" THEN Compiled(<<"1=1">>, <<>>)
    ELSE CompileError("ValueError")

\* A faulty except branch that searches for the stripped text, as parse_query
\* works on, instead of the text as given
FallbackStripped(query) == _build_text_search(TextSearch(Strip(query)))

\* the except branch of search_to_sql: the whole query text, as given, is
\* compiled as one TextSearch
Fallback(query) == _build_text_search(TextSearch(query))

\* search_to_sql after parse_query with outcome parsed
SearchParsed(query, user_id, parsed) ==
    IF parsed.exc # "None" THEN Fallback(query)
    ELSE IF build_sql(parsed.node, user_id).exc # "None" THEN Fallback(query)
    ELSE build_sql(parsed.node, user_id)

\* search_to_sql: any exception of parse_query or build_sql is caught
search_to_sql(query, user_id) == SearchParsed(query, user_id, parse_query(query))

\* ------------------------------------------------------------------------
\* AI search extraction
\* ------------------------------------------------------------------------

AISearchInfo(has_ai, text_prompts, subqueries, context_ast) ==
    [has_ai |-> has_ai, text_prompts |-> text_prompts,
     subqueries |-> subqueries, context_ast |-> context_ast]

\* A collect_ai_nodes that goes on into the AST of a subquery after
\* appending it
RECURSIVE collect_ai_nodes_descending(_, _)
collect_ai_nodes_descending(node, which) ==
    IF node.type = "AITextSearch"
    THEN IF which = "text" THEN <<node.prompt>> ELSE <<>>
    ELSE IF node.type = "AISubquerySearch"
    THEN (IF which = "sub" THEN <<node.subquery>> ELSE <<>>)
             \o collect_ai_nodes_descending(node.subquery, which)
    ELSE IF node.type \in {"AndNode", "OrNode"}
    THEN collect_ai_nodes_descending(node.left, which)
             \o collect_ai_nodes_descending(node.right, which)
    ELSE IF node.type = "NotNode" THEN collect_ai_nodes_descending(node.child, which)
    ELSE <<>>

\* A faulty collect_ai_nodes that walks the right child of AndNode and OrNode
\* before the left one
RECURSIVE collect_ai_nodes_right_first(_, _)
collect_ai_nodes_right_first(node, which) ==
    IF node.type = "AITextSearch"
    THEN IF which = "text" THEN <<node.prompt>> ELSE <<>>
    ELSE IF node.type = "AISubquerySearch"
    THEN IF which = "sub" THEN <<node.subquery>> ELSE <<>>
    ELSE IF node.type \in {"AndNode", "OrNode"}
    THEN collect_ai_nodes_right_first(node.right, which)
             \o collect_ai_nodes_right_first(node.left, which)
    ELSE IF node.type = "NotNode" THEN collect_ai_nodes_right_first(node.child, which)
    ELSE <<>>

\* extract_ai_info.collect_ai_nodes: what it appends, in order, to
\* text_prompts (which = "text") or to subqueries (which = "sub")
RECURSIVE collect_ai_nodes(_, _)
collect_ai_nodes(node, which) ==
    IF node.type = "AITextSearch"
    THEN IF which = "text" THEN <<node.prompt>> ELSE <<>>
    ELSE IF node.type = "AISubquerySearch"
    THEN IF which = "sub" THEN <<node.subquery>> ELSE <<>>
    ELSE IF node.type \in {"AndNode", "OrNode"}
    THEN collect_ai_nodes(node.left, which) \o collect_ai_nodes(node.right, which)
    ELSE IF node.type = "NotNode" THEN collect_ai_nodes(node.child, which)
    ELSE <<>>

\* A faulty AndNode / OrNode case that drops the whole node as soon as one
\* child is gone
KeepChildrenBoth(node, left, right) ==
    IF left = None \/ right = None THEN None
    ELSE [type |-> node.type, left |-> left, right |-> right]

\* the AndNode / OrNode case of remove_ai_nodes, on the stripped children
KeepChildren(node, left, right) ==
    IF left = None /\ right = None THEN None
    ELSE IF left = None THEN right
    ELSE IF right = None THEN left
    ELSE [type |-> node.type, left |-> left, right |-> right]

\* A faulty remove_ai_nodes whose NotNode case lacks the test for a deleted
\* child: NOT over nothing is kept
RECURSIVE remove_ai_nodes_not_kept(_)
remove_ai_nodes_not_kept(node) ==
    IF node.type \in {"AITextSearch", "AISubquerySearch"} THEN None
    ELSE IF node.type \in {"AndNode", "OrNode"}
    THEN KeepChildren(node, remove_ai_nodes_not_kept(node.left),
                      remove_ai_nodes_not_kept(node.right))
    ELSE IF node.type = "NotNode"
    THEN NotNode(remove_ai_nodes_not_kept(node.child))
    ELSE node

\* extract_ai_info.remove_ai_nodes
RECURSIVE remove_ai_nodes(_)
remove_ai_nodes(node) ==
    IF node.type \in {"AITextSearch", "AISubquerySearch"} THEN None
    ELSE IF node.type \in {"AndNode", "OrNode"}
    THEN KeepChildren(node, remove_ai_nodes(node.left), remove_ai_nodes(node.right))
    ELSE IF node.type = "NotNode"
    THEN IF remove_ai_nodes(node.child) = None THEN None
         ELSE NotNode(remove_ai_nodes(node.child))
    ELSE node

extract_ai_info(ast) ==
    LET text_prompts == collect_ai_nodes(ast, "text")
        subqueries   == collect_ai_nodes(ast, "sub")
    IN  AISearchInfo(text_prompts # <<>> \/ subqueries # <<>>,
                     text_prompts, subqueries, remove_ai_nodes(ast))

\* ------------------------------------------------------------------------
\* State: one caller driving the module on one query
\* ------------------------------------------------------------------------

VARIABLES
    query,      \* the query text handed to Lexer, parse_query and search_to_sql
    user_id,    \* the user_id argument of build_sql / search_to_sql (None until given)
    pc,         \* what the caller does next
    lexer,      \* a Lexer(query) scanned with next_token: pos, last token, exception
    ast,        \* outcome of parse_query(query): exc, node
    sql,        \* outcome of build_sql(ast, user_id): exc, sql, params
    info,       \* the AISearchInfo of extract_ai_info(ast)
    result      \* outcome of search_to_sql(query, user_id): exc, sql, params

vars == <<query, user_id, pc, lexer, ast, sql, info, result>>

\* the user_id arguments tried: None, the empty string, a user
Users == {None, StrParam(<<>>), StrParam(<<"u","1">>)}

\* a call that has not been made yet
NotRun == [exc |-> "NotRun", sql |-> <<>>, params |-> <<>>]

NotParsed == [exc |-> "NotRun", node |-> None]

NoInfo == AISearchInfo(FALSE, <<>>, <<>>, None)

\* Lexer.__init__: pos = 0, no token returned yet
NewLexer == LexResult(Token("None", <<>>), 0, "None")

\* The state before the first call, on the query text q
Start(q) ==
    /\ query = q
    /\ user_id = None
    /\ pc = "lex"
    /\ lexer = NewLexer
    /\ ast = NotParsed
    /\ sql = NotRun
    /\ info = NoInfo
    /\ result = NotRun

\* The state of a caller that holds an AST a (built directly from the node
\* classes) and has yet to compile it
StartWithAst(a) ==
    /\ query = <<>>
    /\ user_id = None
    /\ pc = "compile"
    /\ lexer = NewLexer
    /\ ast = [exc |-> "None", node |-> a]
    /\ sql = NotRun
    /\ info = NoInfo
    /\ result = NotRun

\* One call of Lexer.next_token on the scanned lexer
NextToken ==
    /\ pc = "lex"
    /\ lexer.exc = "None"
    /\ lexer.tok.type # "EOF"
    /\ lexer' = next_token(query, lexer.pos)
    /\ UNCHANGED <<query, user_id, pc, ast, sql, info, result>>

\* parse_query(query), once the scan has reached the end of the text
ParseQuery ==
    /\ pc = "lex"
    /\ lexer.exc # "None" \/ lexer.tok.type = "EOF"
    /\ ast' = parse_query(query)
    /\ pc' = IF ast'.exc = "None" THEN "compile" ELSE "search"
    /\ UNCHANGED <<query, user_id, lexer, sql, info, result>>

\* build_sql(ast, user_id) on the AST parse_query returned
BuildSql ==
    /\ pc = "compile"
    /\ \E u \in Users :
          /\ user_id' = u
          /\ sql' = build_sql(ast.node, u)
    /\ pc' = "extract"
    /\ UNCHANGED <<query, lexer, ast, info, result>>

\* extract_ai_info(ast)
ExtractAiInfo ==
    /\ pc = "extract"
    /\ info' = extract_ai_info(ast.node)
    /\ pc' = "search"
    /\ UNCHANGED <<query, user_id, lexer, ast, sql, result>>

\* search_to_sql(query, user_id), with the user_id given to build_sql if
\* build_sql was called
SearchToSql ==
    /\ pc = "search"
    /\ \E u \in (IF sql = NotRun THEN Users ELSE {user_id}) :
          /\ user_id' = u
          /\ result' = search_to_sql(query, u)
    /\ pc' = "done"
    /\ UNCHANGED <<query, lexer, ast, sql, info>>

Next == NextToken \/ ParseQuery \/ BuildSql \/ ExtractAiInfo \/ SearchToSql

\* ------------------------------------------------------------------------
\* Query texts built from fragments
\* ------------------------------------------------------------------------

\* the longest query, in fragments
MaxFrags == 3

Fragments ==
    { <<"a",":","x">>, <<" ">>, <<"(">>, <<")">>, <<"A","N","D">>, <<"o","r"," ">>,
      <<"N","O","T"," ">>, <<"a","i",":">>, <<"A","i","(">>, <<"\"">>,
      <<"y","e","a","r",":","g","t",":">>, <<"1">>, <<"\\">> }

\* the texts of exactly n fragments
RECURSIVE TextsOf(_)
TextsOf(n) ==
    IF n = 0 THEN {<<>>}
    ELSE {t \o f : t \in TextsOf(n - 1), f \in Fragments}

Queries == UNION {TextsOf(n) : n \in 0..MaxFrags}

Init == \E q \in Queries : Start(q)

Spec == Init /\ [][Next]_vars

\* ------------------------------------------------------------------------
\* ASTs built directly from the node classes
\* ------------------------------------------------------------------------

\* the largest AST, in nodes
MaxNodes == 3

\* leaves of every kind build_sql tells apart: the LIKE, tag, playlist,
\* filename, numeric and collated branches, free text, the semantic leaves,
\* and the ways a field condition makes build_sql raise (a field no alias
\* names, an operator OPERATOR_MAP lacks on a plain, a tag and a playlist
\* field, a numeric field with a value that is no number); two prompts and
\* two subqueries, one of them with a semantic leaf inside
Leaves ==
    { FieldCondition(<<"a">>, <<"m","t">>, <<"x">>),
      FieldCondition(<<"t","a","g">>, <<"e","q">>, <<"x">>),
      FieldCondition(<<"t">>, <<"n","e">>, <<"y">>),
      FieldCondition(<<"i","n">>, <<"m","t">>, <<"x">>),
      FieldCondition(<<"p","l","a","y","l","i","s","t">>, <<"e","q">>, <<"y">>),
      FieldCondition(<<"i","n">>, <<"n","e">>, <<"x">>),
      FieldCondition(<<"f">>, <<"e","q">>, <<"x">>),
      FieldCondition(<<"y","e","a","r">>, <<"g","t","e">>, <<"1","9">>),
      FieldCondition(<<"g">>, <<"e","q">>, <<"x">>),
      FieldCondition(<<"y","e","a","r">>, <<"g","t">>, <<"x">>),
      FieldCondition(<<"z">>, <<"m","t">>, <<"x">>),
      FieldCondition(<<"a">>, <<"z">>, <<"x">>),
      FieldCondition(<<"t">>, <<"z">>, <<"x">>),
      FieldCondition(<<"i","n">>, <<"z">>, <<"x">>),
      FieldCondition(<<"i","n">>, <<"n","m">>, <<"x">>),
      TextSearch(<<"x">>),
      TextSearch(<<>>),
      AITextSearch(<<"p">>),
      AITextSearch(<<"q">>),
      AISubquerySearch(FieldCondition(<<"a">>, <<"m","t">>, <<"x">>)),
      AISubquerySearch(AndNode(AITextSearch(<<"r">>),
                               FieldCondition(<<"g">>, <<"e","q">>, <<"x">>))) }

\* the ASTs of exactly n nodes over Leaves (a subquery counts as one leaf)
RECURSIVE AstsOfSize(_)
AstsOfSize(n) ==
    IF n = 1 THEN Leaves
    ELSE {NotNode(c) : c \in AstsOfSize(n - 1)}
         \cup UNION { {AndNode(l, r) : l \in AstsOfSize(k), r \in AstsOfSize(n - 1 - k)}
                      : k \in 1..(n - 2) }
         \cup UNION { {OrNode(l, r) : l \in AstsOfSize(k), r \in AstsOfSize(n - 1 - k)}
                      : k \in 1..(n - 2) }

Asts == UNION {AstsOfSize(n) : n \in 1..MaxNodes}

AstInit == \E a \in Asts : StartWithAst(a)

\* a caller that holds an AST compiles it and extracts from it
AstNext == BuildSql \/ ExtractAiInfo

AstSpec == AstInit /\ [][AstNext]_vars

\* ------------------------------------------------------------------------
\* Query texts built from terms
\* ------------------------------------------------------------------------

\* field conditions as they are written and the node each one denotes: the
\* shorthand, an explicit operator, an upper-case field, a numeric literal, a
\* tag, a quoted value with a space in it, and a field no alias names
FieldTerms ==
    { [text |-> <<"a",":","x">>,
       node |-> FieldCondition(<<"a">>, <<"m","t">>, <<"x">>)],
      [text |-> <<"G",":","e","q",":","y">>,
       node |-> FieldCondition(<<"g">>, <<"e","q">>, <<"y">>)],
      [text |-> <<"y","e","a","r",":","g","t","e",":","1","9">>,
       node |-> FieldCondition(<<"y","e","a","r">>, <<"g","t","e">>, <<"1","9">>)],
      [text |-> <<"t","a","g",":","e","q",":","t">>,
       node |-> FieldCondition(<<"t","a","g">>, <<"e","q">>, <<"t">>)],
      [text |-> <<"a",":","\"","p"," ","q","\"">>,
       node |-> FieldCondition(<<"a">>, <<"m","t">>, <<"p"," ","q">>)],
      [text |-> <<"z",":","x">>,
       node |-> FieldCondition(<<"z">>, <<"m","t">>, <<"x">>)] }

\* `A OR B C`
Ungrouped(A, B, C) == A \o <<" ","O","R"," ">> \o B \o <<" ">> \o C

\* `(A OR B) AND C`
Grouped(A, B, C) ==
    <<"(">> \o A \o <<" ","O","R"," ">> \o B \o <<")"," ","A","N","D"," ">> \o C

PrecedenceInit ==
    \E A \in FieldTerms, B \in FieldTerms, C \in FieldTerms :
        \/ Start(Ungrouped(A.text, B.text, C.text))
        \/ Start(Grouped(A.text, B.text, C.text))

PrecedenceSpec == PrecedenceInit /\ [][Next]_vars

\* a term as it is written, the node it denotes, its kind, and whether it
\* leaves something open at its end: a double quote that is never closed, or
\* an ai: prompt that no closing parenthesis ends
Term(text, node, kind, open) ==
    [text |-> text, node |-> node, kind |-> kind, open |-> open]

Terms ==
    { Term(<<"a",":","x">>,
           FieldCondition(<<"a">>, <<"m","t">>, <<"x">>), "field", FALSE),
      Term(<<"G",":","e","q",":","\"","p"," ","q","\"">>,
           FieldCondition(<<"g">>, <<"e","q">>, <<"p"," ","q">>), "field", FALSE),
      Term(<<"a",":","\"","p">>,
           FieldCondition(<<"a">>, <<"m","t">>, <<"\"","p">>), "field", TRUE),
      Term(<<"w">>, TextSearch(<<"w">>), "bareword", FALSE),
      Term(<<"A","n","d","r","o","i","d">>,
           TextSearch(<<"A","n","d","r","o","i","d">>), "bareword", FALSE),
      Term(<<"q","\"">>, TextSearch(<<"q","\"">>), "bareword", FALSE),
      Term(<<"\"","w">>, TextSearch(<<"w">>), "bareword", TRUE),
      Term(<<"N","O","T"," ","a",":","x">>,
           NotNode(FieldCondition(<<"a">>, <<"m","t">>, <<"x">>)), "not", FALSE),
      Term(<<"n","o","t","(","w",")">>, NotNode(TextSearch(<<"w">>)), "not", FALSE),
      Term(<<"N","O","T"," ","a","i",":","p">>,
           NotNode(AITextSearch(<<"p">>)), "not", TRUE),
      Term(<<"(","a",":","x",")">>,
           FieldCondition(<<"a">>, <<"m","t">>, <<"x">>), "group", FALSE),
      Term(<<"(","a",":","x"," ","O","R"," ","w",")">>,
           OrNode(FieldCondition(<<"a">>, <<"m","t">>, <<"x">>), TextSearch(<<"w">>)),
           "group", FALSE),
      Term(<<"(","a","i",":","p",")">>, AITextSearch(<<"p">>), "group", FALSE),
      Term(<<"a","i",":","p">>, AITextSearch(<<"p">>), "prompt", TRUE) }

\* `X Y`
Juxtaposed(X, Y) == X \o <<" ">> \o Y

\* `X AND Y`
Conjoined(X, Y) == X \o <<" ","A","N","D"," ">> \o Y

\* two terms side by side or with AND between them; and, for the AND keyword
\* that no term follows, `X AND OR Y` next to `X OR Y` and `(X AND) Y` next
\* to `(X) Y`
JuxtapositionInit ==
    \E X \in Terms, Y \in Terms :
        /\ X.kind # "prompt"
        /\ \/ Start(Juxtaposed(X.text, Y.text))
           \/ Start(Conjoined(X.text, Y.text))
           \/ Start(X.text \o <<" ","A","N","D"," ","O","R"," ">> \o Y.text)
           \/ Start(X.text \o <<" ","O","R"," ">> \o Y.text)
           \/ Start(<<"(">> \o X.text \o <<" ","A","N","D",")"," ">> \o Y.text)
           \/ Start(<<"(">> \o X.text \o <<")"," ">> \o Y.text)

JuxtapositionSpec == JuxtapositionInit /\ [][Next]_vars

\* the field aliases, as listed and in upper case
Aliases == DOMAIN FIELD_MAP \cup {Upper(f) : f \in DOMAIN FIELD_MAP}

\* values as they are written after the colon and as the token holds them:
\* unquoted runs that do not begin with letters followed by a colon (a word,
\* a number, the word mt, a keyword, runs with a colon or a quote in them)
\* and quoted strings (with a blank, empty, with a colon, with an escape)
Values ==
    { [text |-> <<"x">>, value |-> <<"x">>],
      [text |-> <<"1","9">>, value |-> <<"1","9">>],
      [text |-> <<"m","t">>, value |-> <<"m","t">>],
      [text |-> <<"A","N","D">>, value |-> <<"A","N","D">>],
      [text |-> <<":","x">>, value |-> <<":","x">>],
      [text |-> <<"1",":","x">>, value |-> <<"1",":","x">>],
      [text |-> <<"x","\"","y">>, value |-> <<"x","\"","y">>],
      [text |-> <<"\"","p"," ","q","\"">>, value |-> <<"p"," ","q">>],
      [text |-> <<"\"","\"">>, value |-> <<>>],
      [text |-> <<"\"","e","q",":","(","\"">>, value |-> <<"e","q",":","(">>],
      [text |-> <<"\"","p","\\","\"","q","\"">>, value |-> <<"p","\"","q">>] }

\* `f:v`
Shorthand(f, v) == f \o <<":">> \o v

\* `f:mt:v`
Longhand(f, v) == f \o <<":","m","t",":">> \o v

ShorthandInit ==
    \E f \in Aliases, v \in Values :
        \/ Start(Shorthand(f, v.text))
        \/ Start(Longhand(f, v.text))

ShorthandSpec == ShorthandInit /\ [][Next]_vars

\* the aliases of the numeric columns
NumericAliases ==
    { <<"y","e","a","r">>, <<"b","p","m">>, <<"d","u","r">>,
      <<"d","u","r","a","t","i","o","n">>, <<"t","r","a","c","k">>,
      <<"t","r","a","c","k","_","n","u","m","b","e","r">>, <<"d","i","s","c">>,
      <<"d","i","s","c","_","n","u","m","b","e","r">> }

\* the operators of equality, inequality and order
ComparisonOperators ==
    {<<"e","q">>, <<"n","e">>, <<"g","t">>, <<"l","t">>, <<"g","t","e">>, <<"l","t","e">>}

\* literals as they are written: whether the text writes a number, whether
\* it writes an integer, and which
Literal(text, number, integer, n) ==
    [text |-> text, number |-> number, integer |-> integer, n |-> n]

Literals ==
    { Literal(<<"1","9","8","0">>, TRUE, TRUE, 1980),
      Literal(<<"-","5">>, TRUE, TRUE, 0 - 5),
      Literal(<<"+","7">>, TRUE, TRUE, 7),
      Literal(<<"0","0","7">>, TRUE, TRUE, 7),
      Literal(<<"1",".","5">>, TRUE, FALSE, 0),
      Literal(<<"1","e","3">>, TRUE, FALSE, 0),
      Literal(<<"a","b","c">>, FALSE, FALSE, 0),
      Literal(<<"1","2","a","b","c">>, FALSE, FALSE, 0),
      Literal(<<"1",".","2",".","3">>, FALSE, FALSE, 0),
      Literal(<<"-","-","1">>, FALSE, FALSE, 0),
      Literal(<<"\"","\"">>, FALSE, FALSE, 0),
      Literal(<<"n","a","n">>, FALSE, FALSE, 0) }

\* `f:op:v`
Comparison(f, op, v) == f \o <<":">> \o op \o <<":">> \o v

NumericInit ==
    \E f \in NumericAliases, op \in ComparisonOperators, v \in Literals :
        Start(Comparison(f, op, v.text))

NumericSpec == NumericInit /\ [][Next]_vars

\* prompt texts: plain ones of one and several words; with a keyword in
\* lower or mixed case or set off by tabs or double blanks; with blanks or a
\* newline at either end or inside; wrapped in quotes; empty; with a
\* parenthesis, a colon, a quote or a keyword that bounds nothing; and with
\* the boundaries ' AND ', ' OR ' and ')'
Prompts ==
    { <<"h","a","p","p","y"," ","s","o","n","g">>,
      <<"p">>,
      <<"r","o","c","k"," ","a","n","d"," ","r","o","l","l">>,
      <<"x"," ","O","r"," ","y">>,
      <<" ","p">>,
      <<"p"," ">>,
      <<"\"","p"," ","q","\"">>,
      <<"'","p","'">>,
      <<>>,
      <<"p","(","q">>,
      <<"p","\t","A","N","D","\t","q">>,
      <<"p","\t","q">>,
      <<"p","\n","q">>,
      <<"p"," ","A","N","D">>,
      <<"A","N","D"," ","q">>,
      <<"e","q",":","x">>,
      <<"p","\"","q">>,
      <<"\"","p">>,
      <<"a","i",":","p">>,
      <<"N","O","T"," ","q">>,
      <<"\"">>,
      <<"p"," "," ","o","r"," "," ","q">>,
      <<"p"," ","A","N","D"," ","q">>,
      <<"p"," ","O","R"," ","q">>,
      <<"p",")","q">>,
      <<"j","-","p","o","p"," ","h","a","p","p","y">>,
      <<"\"","a"," ","A","N","D"," ","b","\"">>,
      <<")","x">>,
      <<" ","A","N","D"," ","b">>,
      <<"\"","a","\\","\"","b","\"">>,
      <<"p"," ",")">>,
      <<"\"","a","\""," ","b","\""," ","A","N","D"," ","c">>,
      <<"p","\n">> }

\* `F AND ai:P`
Hybrid(F, P) == F \o <<" ","A","N","D"," ","a","i",":">> \o P

HybridInit == \E F \in FieldTerms, P \in Prompts : Start(Hybrid(F.text, P))

HybridSpec == HybridInit /\ [][Next]_vars

\* subquery texts: a field condition, the empty text, nested groups and a
\* nested ai(..), parentheses inside quoted substrings, blanks at both ends,
\* a backslash, texts parse_query rejects, texts with a double quote that is
\* never closed, and texts with unbalanced parentheses
Subqueries ==
    { <<"a",":","B","e","a","t","l","e","s">>,
      <<>>,
      <<"a",":","x"," ","O","R"," ","(","b"," ","c",")">>,
      <<"a",":","\"","x",")","\"">>,
      <<"a",":","\"",")","\""," ","b">>,
      <<" ","a",":","x"," ">>,
      <<"a","i","(","x",")">>,
      <<"a","i",":","p">>,
      <<"a",":","\"","(","\""," ","(","b",")">>,
      <<"a","\\","\"","b",")","c","\"">>,
      <<"x","\\">>,
      <<"a",":","x"," ","A","N","D">>,
      <<"x","\"","(","\""," ","y">>,
      <<"a",":","\"","x">>,
      <<"\"">>,
      <<"\\","\"","(">>,
      <<"\"","a","\""," ","\"","b">>,
      <<"(","a">>,
      <<"a",")">> }

\* what follows the closing parenthesis
Rests ==
    { <<>>,
      <<" ","b">>,
      <<")">>,
      <<"x">>,
      <<" ","A","N","D"," ","c">>,
      <<" ","O","R"," ","c">>,
      <<"(","d",")">>,
      <<"\"">> }

\* `ai(Q)R`
SubqueryCall(Q, R) == <<"a","i","(">> \o Q \o <<")">> \o R

SubqueryInit == \E Q \in Subqueries, R \in Rests : Start(SubqueryCall(Q, R))

SubquerySpec == SubqueryInit /\ [][Next]_vars

\* ------------------------------------------------------------------------
\* Concurrent invocations.  Each invocation runs in a thread of its own: its
\* query text, its Lexer (pos and the token returned), its AST and its
\* results are locals and instance attributes of that invocation, so every
\* variable holds one value per invocation.  The catalogs FIELD_MAP,
\* OPERATOR_MAP and NUMERIC_FIELDS and the compiled patterns are the only
\* objects the invocations share.
\* ------------------------------------------------------------------------

\* the invocations that run at the same time
MaxInvocations == 2

\* each invocation is given one of three queries: `a:x AND t:y`,
\* `ai(g:x) OR w` and `(w`
ConcurrentInit ==
    /\ query \in [1..MaxInvocations ->
                     { <<"a",":","x"," ","A","N","D"," ","t",":","y">>,
                       <<"a","i","(","g",":","x",")"," ","O","R"," ","w">>,
                       <<"(","w">> }]
    /\ user_id = [i \in 1..MaxInvocations |-> None]
    /\ pc = [i \in 1..MaxInvocations |-> "lex"]
    /\ lexer = [i \in 1..MaxInvocations |-> NewLexer]
    /\ ast = [i \in 1..MaxInvocations |-> NotParsed]
    /\ sql = [i \in 1..MaxInvocations |-> NotRun]
    /\ info = [i \in 1..MaxInvocations |-> NoInfo]
    /\ result = [i \in 1..MaxInvocations |-> NotRun]

\* A faulty lexer whose position is an attribute of the class, not of the
\* instance: a next_token call of one invocation moves the lexer of every
\* invocation
ConcurrentNextTokenShared(i) ==
    /\ pc[i] = "lex"
    /\ lexer[i].exc = "None"
    /\ lexer[i].tok.type # "EOF"
    /\ lexer' = [j \in 1..MaxInvocations |-> next_token(query[i], lexer[i].pos)]
    /\ UNCHANGED <<query, user_id, pc, ast, sql, info, result>>

\* invocation i: one call of next_token on its lexer
ConcurrentNextToken(i) ==
    /\ pc[i] = "lex"
    /\ lexer[i].exc = "None"
    /\ lexer[i].tok.type # "EOF"
    /\ lexer' = [lexer EXCEPT ![i] = next_token(query[i], lexer[i].pos)]
    /\ UNCHANGED <<query, user_id, pc, ast, sql, info, result>>

\* invocation i: parse_query returns, the text read to its end
ConcurrentParseQuery(i) ==
    /\ pc[i] = "lex"
    /\ lexer[i].exc # "None" \/ lexer[i].tok.type = "EOF"
    /\ ast' = [ast EXCEPT ![i] = parse_query(query[i])]
    /\ pc' = [pc EXCEPT ![i] = IF ast'[i].exc = "None" THEN "compile" ELSE "done"]
    /\ UNCHANGED <<query, user_id, lexer, sql, info, result>>

\* invocation i: build_sql on its AST
ConcurrentBuildSql(i) ==
    /\ pc[i] = "compile"
    /\ \E u \in Users :
          /\ user_id' = [user_id EXCEPT ![i] = u]
          /\ sql' = [sql EXCEPT ![i] = build_sql(ast[i].node, u)]
    /\ pc' = [pc EXCEPT ![i] = "extract"]
    /\ UNCHANGED <<query, lexer, ast, info, result>>

\* invocation i: extract_ai_info on its AST
ConcurrentExtractAiInfo(i) ==
    /\ pc[i] = "extract"
    /\ info' = [info EXCEPT ![i] = extract_ai_info(ast[i].node)]
    /\ pc' = [pc EXCEPT ![i] = "done"]
    /\ UNCHANGED <<query, user_id, lexer, ast, sql, result>>

\* any invocation takes its next step
ConcurrentNext ==
    \E i \in 1..MaxInvocations :
        \/ ConcurrentNextToken(i)
        \/ ConcurrentParseQuery(i)
        \/ ConcurrentBuildSql(i)
        \/ ConcurrentExtractAiInfo(i)

ConcurrentSpec == ConcurrentInit /\ [][ConcurrentNext]_vars

\* ------------------------------------------------------------------------
\* A caller that keeps running: each call that can be made is eventually
\* made (weak fairness of every step).  The enabling condition of each step
\* is its guard, written out: a parser call is total, so the step is enabled
\* exactly when the caller has come to it.
\* ------------------------------------------------------------------------

FairSpec ==
    /\ Spec
    /\ \/ []<>(~(pc = "lex" /\ lexer.exc = "None" /\ lexer.tok.type # "EOF"))
       \/ []<><<NextToken>>_vars
    /\ WF_pc(/\ pc = "lex"
             /\ lexer.exc # "None" \/ lexer.tok.type = "EOF"
             /\ pc' \in {"compile", "search"})
    /\ WF_pc(pc = "compile" /\ pc' = "extract")
    /\ WF_pc(pc = "extract" /\ pc' = "search")
    /\ WF_pc(pc = "search" /\ pc' = "done")

\* ------------------------------------------------------------------------
\* Properties
\* ------------------------------------------------------------------------

\* how many pieces of a template are the positional placeholder
PlaceholderCount(template) ==
    Cardinality({i \in DOMAIN template : template[i] = "?"})

\* C1: whenever build_sql has returned without raising, on any AST and with
\* or without a user_id, the number of '?' placeholders of the template it
\* returned equals the length of the parameter list it returned.
PlaceholderParity ==
    sql.exc = "None" => PlaceholderCount(sql.sql) = Len(sql.params)

\* build_sql has compiled, for a user, a conjunction with a tag condition on
\* one side: two parameters from the tag branch and more from the other side
PlaceholderParityWitness ==
    /\ sql.exc = "None"
    /\ user_id = StrParam(<<"u","1">>)
    /\ ast.node.type = "AndNode"
    /\ ast.node.left = FieldCondition(<<"t","a","g">>, <<"e","q">>, <<"x">>)
    /\ ast.node.right = TextSearch(<<"x">>)
    /\ Len(sql.params) = 7

\* C2: search_to_sql never raises.  When parse_query raised (a parse error)
\* or build_sql raised (unknown field, unknown operator, non-numeric literal),
\* its result is exactly the compilation of one free-text leaf holding the
\* whole query text as given; otherwise it is build_sql(parse_query(text)).
SearchNeverFails ==
    pc = "done" =>
        /\ result.exc = "None"
        /\ IF ast.exc # "None" \/ sql.exc # "None"
           THEN result = _build_text_search(TextSearch(query))
           ELSE result = sql

\* search_to_sql has fallen back after build_sql raised, on a text that
\* starts with whitespace: the five parameters hold the text unstripped
SearchNeverFailsWitness ==
    /\ pc = "done"
    /\ ast.exc = "None"
    /\ sql.exc = "ValueError"
    /\ query # Strip(query)
    /\ result.params = [i \in 1..5 |-> StrParam(Wildcard(query))]

\* the text from index p on has none of the forms next_token tests for:
\* no parenthesis, no keyword, no ai( function, no ai: prompt, no field
NoFormAt(text, p) ==
    /\ p < Len(text)
    /\ At(text, p) \notin {"(", ")"}
    /\ ~KeywordAhead(Slice(text, p, Len(text)), <<"A","N","D">>, ")")
    /\ ~KeywordAhead(Slice(text, p, Len(text)), <<"O","R">>, ")")
    /\ ~KeywordAhead(Slice(text, p, Len(text)), <<"N","O","T">>, "(")
    /\ Lower(Slice(text, p, p + 3)) # <<"a","i","(">>
    /\ ~AI_TEXT_PATTERN(Slice(text, p, Len(text))).matched
    /\ ~FIELD_PATTERN(Slice(text, p, Len(text))).matched

\* C3: Lexer.next_token is total.  Every call, on any text and from any scan
\* position the preceding calls reached, returns a token of one of the token
\* types and raises nothing; and when the input after the whitespace has
\* none of the keyword, parenthesis, field or semantic forms, the token is a
\* VALUE token that consumes at least one character.
NextTokenTotal ==
    [][lexer' # lexer =>
          /\ lexer'.exc = "None"
          /\ lexer'.tok.type \in TokenType
          /\ NoFormAt(query, skip_whitespace(query, lexer.pos)) =>
                /\ lexer'.tok.type = "VALUE"
                /\ lexer'.pos > skip_whitespace(query, lexer.pos)]_vars

\* a second call of next_token has returned, for an unterminated quoted
\* string that ends in a backslash, the VALUE token of what it read
NextTokenTotalWitness ==
    /\ query = <<")", "\"", "\\">>
    /\ lexer.exc = "None"
    /\ lexer.tok = Token("VALUE", <<"\\">>)
    /\ lexer.pos = 3

\* C4: implicit AND binds tighter than OR and parentheses override it.  For
\* field conditions A, B, C the text `A OR B C` parses to Or(A, And(B, C))
\* and the text `(A OR B) AND C` to And(Or(A, B), C); the tree of either
\* text differs from the tree of the other, and when build_sql returns for
\* both, so do the templates.
AndBindsTighterThanOr ==
    \A A \in FieldTerms, B \in FieldTerms, C \in FieldTerms :
        /\ query = Ungrouped(A.text, B.text, C.text) /\ ast # NotParsed =>
              /\ ast = Parsed("None", OrNode(A.node, AndNode(B.node, C.node)))
              /\ ast # parse_query(Grouped(A.text, B.text, C.text))
              /\ sql.exc = "None" =>
                    sql.sql # build_sql(parse_query(Grouped(A.text, B.text, C.text)).node,
                                        user_id).sql
        /\ query = Grouped(A.text, B.text, C.text) /\ ast # NotParsed =>
              /\ ast = Parsed("None", AndNode(OrNode(A.node, B.node), C.node))
              /\ ast # parse_query(Ungrouped(A.text, B.text, C.text))
              /\ sql.exc = "None" =>
                    sql.sql # build_sql(parse_query(Ungrouped(A.text, B.text, C.text)).node,
                                        user_id).sql

\* `G:eq:y OR a:"p q" tag:eq:t` has been parsed to Or(G, And(a, tag)) and
\* compiled for a user to the template of that shape
AndBindsTighterThanOrWitness ==
    /\ query = <<"G",":","e","q",":","y"," ","O","R"," ","a",":","\"","p"," ","q","\"",
                 " ","t","a","g",":","e","q",":","t">>
    /\ ast.node.type = "OrNode"
    /\ ast.node.right.type = "AndNode"
    /\ user_id = StrParam(<<"u","1">>)
    /\ sql.exc = "None"
    /\ Len(sql.params) = 4
    /\ sql.sql[1] = "(" /\ sql.sql[2] = "genre" /\ sql.sql[8] = " OR " /\ sql.sql[9] = "("

\* parse_query has returned, on `X Y` or on `X AND Y`, the node And(X, Y),
\* which is also what it returns on the other of the two texts
ParsedAsAnd(X, Y) ==
    (query \in {Juxtaposed(X.text, Y.text), Conjoined(X.text, Y.text)}
        /\ ast # NotParsed) =>
        /\ ast = Parsed("None", AndNode(X.node, Y.node))
        /\ parse_query(Juxtaposed(X.text, Y.text)) = ast
        /\ parse_query(Conjoined(X.text, Y.text)) = ast

ShorthandEquivalence ==
    \A f \in Aliases, v \in Values :
        query \in {Shorthand(f, v.text), Longhand(f, v.text)} =>
            /\ lexer.tok.type \notin {"None", "EOF"} =>
                  /\ lexer.exc = "None"
                  /\ lexer.tok = FieldToken(Lower(f), <<"m","t">>, v.value)
                  /\ lexer.pos = Len(query)
                  /\ next_token(Shorthand(f, v.text), 0).tok = lexer.tok
                  /\ next_token(Longhand(f, v.text), 0).tok = lexer.tok
            /\ ast # NotParsed =>
                  /\ ast = Parsed("None", FieldCondition(Lower(f), <<"m","t">>, v.value))
                  /\ parse_query(Shorthand(f, v.text)) = ast
                  /\ parse_query(Longhand(f, v.text)) = ast
            /\ sql # NotRun =>
                  /\ sql.exc = "None"
                  /\ build_sql(parse_query(Shorthand(f, v.text)).node, user_id) = sql
                  /\ build_sql(parse_query(Longhand(f, v.text)).node, user_id) = sql
            /\ result # NotRun =>
                  /\ search_to_sql(Shorthand(f, v.text), user_id) = result
                  /\ search_to_sql(Longhand(f, v.text), user_id) = result

\* the shorthand `YEAR:19` has been compiled: the contains operator, on a
\* numeric column too
ShorthandEquivalenceWitness ==
    /\ query = <<"Y","E","A","R",":","1","9">>
    /\ ast.node = FieldCondition(<<"y","e","a","r">>, <<"m","t">>, <<"1","9">>)
    /\ sql = Compiled(<<"year", " LIKE ", "?">>, <<StrParam(<<"%","1","9","%">>)>>)
    /\ result = sql

\* the keywords, as written in the text and as token types
Keywords == {<<"A","N","D">>, <<"O","R">>, <<"N","O","T">>}

KeywordType(kw) ==
    IF kw = <<"A","N","D">> THEN "AND" ELSE IF kw = <<"O","R">> THEN "OR" ELSE "NOT"

\* the character at index i of the text is whitespace or a parenthesis
BoundaryAt(text, i) ==
    i < Len(text) /\ (IsSpace(At(text, i)) \/ At(text, i) \in {"(", ")"})

\* C7: at a token start p, text that begins with the letters AND, OR or NOT
\* in any letter case is lexed as that keyword's token (the same token for
\* every letter case) if and only if the character after the keyword is
\* whitespace, '(' or ')'; otherwise the run goes into a VALUE or a
\* FIELD_OP_VALUE token.
KeywordIffBoundary ==
    [][lexer' # lexer =>
          \A kw \in Keywords :
              Upper(Slice(query, skip_whitespace(query, lexer.pos),
                          skip_whitespace(query, lexer.pos) + Len(kw))) = kw =>
                  IF BoundaryAt(query, skip_whitespace(query, lexer.pos) + Len(kw))
                  THEN /\ lexer'.tok = Token(KeywordType(kw), kw)
                       /\ lexer'.pos = skip_whitespace(query, lexer.pos) + Len(kw)
                  ELSE lexer'.tok.type \in {"VALUE", "FIELD_OP_VALUE"}]_vars

\* C8: for a field condition on a numeric column with operator eq, ne, gt,
\* lt, gte or lte, build_sql raises when the literal is not a number, and
\* otherwise returns exactly one parameter, a number and never the raw
\* string: the integer the literal writes when it writes an integer.
NumericLiteralCoerced ==
    \A f \in NumericAliases, op \in ComparisonOperators, v \in Literals :
        (query = Comparison(f, op, v.text) /\ sql # NotRun) =>
            IF v.number
            THEN /\ sql.exc = "None"
                 /\ Len(sql.params) = 1
                 /\ IF v.integer THEN sql.params[1] = IntParam(v.n)
                    ELSE /\ sql.params[1].type = "float"
                         /\ sql.params[1].special = "finite"
            ELSE sql.exc = "ValueError"

\* the text sub occurs in text
Contains(text, sub) ==
    \E i \in 0..(Len(text) - Len(sub)) : Slice(text, i, i + Len(sub)) = sub

\* the precondition as the claim words it
UnboundedPrompt(P) ==
    /\ ~Contains(P, <<" ","A","N","D"," ">>)
    /\ ~Contains(P, <<" ","O","R"," ">>)
    /\ ~Contains(P, <<")">>)

\* the word AND or OR, in any case, between whitespace
SpacedKeywordIn(P) ==
    \E i \in 1..Len(P), n \in {2, 3} :
        /\ i + n + 1 <= Len(P)
        /\ IsSpace(P[i])
        /\ Upper(SubSeq(P, i + 1, i + n)) \in {<<"A","N","D">>, <<"O","R">>}
        /\ IsSpace(P[i + n + 1])

\* a prompt the lexer returns as written: not empty, on one line, without
\* whitespace at either end, not wrapped in double quotes, without ')' and
\* without a whitespace-delimited AND / OR in any case
PlainPrompt(P) ==
    /\ P # <<>>
    /\ ~IsSpace(P[1]) /\ ~IsSpace(P[Len(P)])
    /\ ~Contains(P, <<"\n">>)
    /\ ~(P[1] = "\"" /\ P[Len(P)] = "\"")
    /\ ~Contains(P, <<")">>)
    /\ ~SpacedKeywordIn(P)

RECURSIVE ParenScan(_, _, _, _)
ParenScan(Q, i, d, quoted) ==
    IF i > Len(Q) THEN [balanced |-> d = 0, closed |-> ~quoted]
    ELSE IF quoted
    THEN IF Q[i] = "\\" /\ i < Len(Q) THEN ParenScan(Q, i + 2, d, TRUE)
         ELSE ParenScan(Q, i + 1, d, Q[i] # "\"")
    ELSE IF Q[i] = "\"" THEN ParenScan(Q, i + 1, d, TRUE)
    ELSE IF Q[i] = "(" THEN ParenScan(Q, i + 1, d + 1, FALSE)
    ELSE IF Q[i] = ")"
    THEN IF d = 0 THEN [balanced |-> FALSE, closed |-> TRUE]
         ELSE ParenScan(Q, i + 1, d - 1, FALSE)
    ELSE ParenScan(Q, i + 1, d, FALSE)

ParensBalanced(Q) == ParenScan(Q, 1, 0, FALSE).balanced

QuotesClosed(Q) == ParenScan(Q, 1, 0, FALSE).closed

\* the first atom the parser built
RECURSIVE LeftmostAtom(_)
LeftmostAtom(node) ==
    IF node.type \in {"AndNode", "OrNode"} THEN LeftmostAtom(node.left) ELSE node

\* what the claim says of `ai(Q)R` in one step of the caller
SubqueryStep(Q, R) ==
    /\ (lexer = NewLexer /\ lexer' # lexer) =>
          lexer' = LexResult(Token("AI_FUNC", Q), Len(Q) + 4, "None")
    /\ (ast = NotParsed /\ ast' # ast /\ parse_query(Q).exc = "None") =>
          /\ ast'.exc = "None" =>
                LeftmostAtom(ast'.node) = AISubquerySearch(parse_query(Q).node)
          /\ R = <<>> => ast' = Parsed("None", AISubquerySearch(parse_query(Q).node))
    /\ (R = <<>> /\ pc = "extract" /\ pc' = "search") =>
          info' = AISearchInfo(TRUE, <<>>, <<parse_query(Q).node>>, None)

\* C10 as stated: for `ai(Q)` followed by any rest R, where the parentheses
\* of Q are balanced outside double-quoted substrings, the AI_FUNC token value
\* is exactly Q, lexing resumes at the first character of R, the parser
\* yields AISubquerySearch(parse_query(Q)), and for `ai(Q)` alone
\* extract_ai_info returns subqueries = [parse_query(Q)] and context_ast = None.
SubqueryCapture ==
    [][\A Q \in Subqueries, R \in Rests :
          (query = SubqueryCall(Q, R) /\ ParensBalanced(Q)) => SubqueryStep(Q, R)]_vars

\* C10: for `ai(Q)` followed by any rest R, where the parentheses of Q are
\* balanced outside double-quoted substrings and every double quote opened in
\* Q is closed in Q, the AI_FUNC token value is exactly Q, lexing resumes at
\* the first character of R, the parser, when parse_query(Q) returns, yields
\* AISubquerySearch(parse_query(Q)) as its first atom, and for `ai(Q)` alone
\* extract_ai_info returns subqueries = [parse_query(Q)] and context_ast = None.
SubqueryCaptureClosed ==
    [][\A Q \in Subqueries, R \in Rests :
          (query = SubqueryCall(Q, R) /\ ParensBalanced(Q) /\ QuotesClosed(Q)) =>
              SubqueryStep(Q, R)]_vars

\* extract_ai_info has run on `ai(a:")" b)`, whose subquery holds a closing
\* parenthesis inside a quoted substring
SubqueryCaptureClosedWitness ==
    /\ query = SubqueryCall(<<"a",":","\"",")","\""," ","b">>, <<>>)
    /\ pc = "search"
    /\ ast.node = AISubquerySearch(AndNode(
                      FieldCondition(<<"a">>, <<"m","t">>, <<")">>),
                      TextSearch(<<"b">>)))
    /\ info.subqueries = <<ast.node.subquery>>
    /\ info.context_ast = None

\* every leaf of the AST is AITextSearch or AISubquerySearch
RECURSIVE AllLeavesSemantic(_)
AllLeavesSemantic(node) ==
    IF node.type \in {"AndNode", "OrNode"}
    THEN AllLeavesSemantic(node.left) /\ AllLeavesSemantic(node.right)
    ELSE IF node.type = "NotNode" THEN AllLeavesSemantic(node.child)
    ELSE node.type \in {"AITextSearch", "AISubquerySearch"}

\* C11: for every AST, once extract_ai_info has returned, has_ai is true iff
\* text_prompts or subqueries is non-empty, and context_ast is None iff every
\* leaf of the input AST is a semantic leaf.
ExtractInvariant ==
    (pc = "search" /\ ast.exc = "None") =>
        /\ info.has_ai <=> (info.text_prompts # <<>> \/ info.subqueries # <<>>)
        /\ (info.context_ast = None) <=> AllLeavesSemantic(ast.node)

\* extract_ai_info has run on an OR of a prompt and a field condition: the
\* prompt is collected and the field condition alone is the context
ExtractInvariantWitness ==
    /\ pc = "search"
    /\ ast.node = OrNode(AITextSearch(<<"p">>),
                         FieldCondition(<<"a">>, <<"m","t">>, <<"x">>))
    /\ info.has_ai
    /\ info.context_ast = FieldCondition(<<"a">>, <<"m","t">>, <<"x">>)

\* a closing parenthesis that no opening parenthesis before it matches, in a
\* text without double quotes and without the semantic forms (so that every
\* parenthesis of the text is a token of its own)
StrayClose(text) ==
    /\ ~Contains(text, <<"\"">>)
    /\ ~Contains(Lower(text), <<"a","i",":">>)
    /\ ~Contains(Lower(text), <<"a","i","(">>)
    /\ \E i \in 1..Len(text) :
          Cardinality({j \in 1..i : text[j] = ")"})
              > Cardinality({j \in 1..i : text[j] = "("})

\* C12: parse_query raises a parse error when tokens remain after a complete
\* Query has been parsed: a text with a stray ')' is never answered with an
\* AST that leaves the rest of the text out.
TrailingInputRaises ==
    (ast # NotParsed /\ StrayClose(query)) => ast.exc # "None"

\* the types of the tokens of text from pos on, EOF included
RECURSIVE TokenTypes(_, _)
TokenTypes(text, pos) ==
    IF next_token(text, pos).tok.type = "EOF" THEN <<"EOF">>
    ELSE <<next_token(text, pos).tok.type>> \o TokenTypes(text, next_token(text, pos).pos)

\* the token types that start a term
TermStart == {"NOT", "LPAREN", "FIELD_OP_VALUE", "VALUE", "AI_FUNC"}

\* the parenthesis depth after the first i tokens, a ')' without a '(' before
\* it closing nothing
RECURSIVE GroupDepth(_, _)
GroupDepth(toks, i) ==
    IF i = 0 THEN 0
    ELSE IF toks[i] = "LPAREN" THEN GroupDepth(toks, i - 1) + 1
    ELSE IF toks[i] = "RPAREN" /\ GroupDepth(toks, i - 1) > 0
    THEN GroupDepth(toks, i - 1) - 1
    ELSE GroupDepth(toks, i - 1)

\* token i stands where an atom must start (start of query, after OR, after
\* NOT, after '(') and is AND, OR, NOT after NOT, ')' or the end of input
BadAtomAt(toks, i) ==
    /\ i = 1 \/ toks[i - 1] \in {"OR", "NOT", "LPAREN"}
    /\ \/ toks[i] \in {"AND", "OR", "RPAREN", "EOF"}
       \/ i > 1 /\ toks[i - 1] = "NOT" /\ toks[i] = "NOT"

RECURSIVE ParserMustRaise(_, _, _, _)
ParserMustRaise(toks, i, depth, st) ==
    IF st \in {"atom", "not"}
    THEN IF toks[i] \in {"AND", "OR", "RPAREN"} THEN TRUE
         ELSE IF toks[i] = "EOF" THEN i > 1
         ELSE IF toks[i] = "NOT"
         THEN st = "not" \/ ParserMustRaise(toks, i + 1, depth, "not")
         ELSE IF toks[i] = "LPAREN" THEN ParserMustRaise(toks, i + 1, depth + 1, "atom")
         ELSE ParserMustRaise(toks, i + 1, depth, "op")
    ELSE IF toks[i] = "EOF" THEN depth > 0
    ELSE IF toks[i] = "OR" THEN ParserMustRaise(toks, i + 1, depth, "atom")
    ELSE IF toks[i] = "AND"
    THEN toks[i + 1] # "AND" /\ ParserMustRaise(toks, i + 1, depth, "op")
    ELSE IF toks[i] = "RPAREN"
    THEN depth > 0 /\ ParserMustRaise(toks, i + 1, depth - 1, "op")
    ELSE ParserMustRaise(toks, i, depth, "atom")

RECURSIVE QuoteCloses(_, _)
QuoteCloses(text, i) ==
    IF i > Len(text) THEN FALSE
    ELSE IF text[i] = "\\" /\ i < Len(text) THEN QuoteCloses(text, i + 2)
    ELSE text[i] = "\"" \/ QuoteCloses(text, i + 1)

\* a ')' at or after the i-th character matches the '(' of an ai( capture
\* that is d groups deep at i, parentheses inside quoted substrings not
\* counted
RECURSIVE CaptureCloses(_, _, _, _)
CaptureCloses(text, i, d, quoted) ==
    IF i > Len(text) THEN FALSE
    ELSE IF quoted
    THEN IF text[i] = "\\" /\ i < Len(text) THEN CaptureCloses(text, i + 2, d, TRUE)
         ELSE CaptureCloses(text, i + 1, d, text[i] # "\"")
    ELSE IF text[i] = "\"" THEN CaptureCloses(text, i + 1, d, TRUE)
    ELSE IF text[i] = "(" THEN CaptureCloses(text, i + 1, d + 1, FALSE)
    ELSE IF text[i] = ")" THEN d = 1 \/ CaptureCloses(text, i + 1, d - 1, FALSE)
    ELSE CaptureCloses(text, i + 1, d, FALSE)

\* at index p of the text a quoted value opens that no quote closes, or an
\* ai( capture opens that no ')' matches
UnterminatedAt(text, p) ==
    \/ /\ p < Len(text)
       /\ At(text, p) = "\""
       /\ ~QuoteCloses(text, p + 2)
    \/ /\ Lower(Slice(text, p, p + 3)) = <<"a","i","(">>
       /\ ~CaptureCloses(text, p + 4, 1, FALSE)

\* C14: a call of next_token at a double-quoted value with no closing quote,
\* or at an `ai(` capture with no matching ')', raises a lex error instead of
\* returning a token made from the partial text.
UnterminatedRaises ==
    [][(lexer' # lexer /\ UnterminatedAt(query, skip_whitespace(query, lexer.pos))) =>
          lexer'.exc # "None"]_vars

\* after the first k characters of T comes a prompt boundary: whitespace
\* followed by AND or OR (in any case) and whitespace, a ')', or the end
PromptBoundary(T, k) ==
    \/ k = Len(T)
    \/ T[k + 1] = ")"
    \/ \E m \in (k + 1)..Len(T), n \in {2, 3} :
          /\ \A j \in (k + 1)..m : IsSpace(T[j])
          /\ m + n + 1 <= Len(T)
          /\ Upper(SubSeq(T, m + 1, m + n)) \in {<<"A","N","D">>, <<"O","R">>}
          /\ IsSpace(T[m + n + 1])

\* the length of T up to its first boundary
FirstBoundary(T) ==
    CHOOSE k \in 0..Len(T) :
        PromptBoundary(T, k) /\ \A j \in 0..(k - 1) : ~PromptBoundary(T, j)

\* wholly enclosed in double quotes
Enclosed(P) == Len(P) >= 2 /\ P[1] = "\"" /\ P[Len(P)] = "\""

\* a prompt with the enclosing double quotes stripped
WithoutQuotes(P) == IF Enclosed(P) THEN SubSeq(P, 2, Len(P) - 1) ELSE P

\* T is not empty, lies on one line, begins with neither whitespace nor ')',
\* and, when it begins with a double quote, is up to its boundary wholly
\* enclosed in double quotes with no backslash inside
PlainPromptText(T) ==
    /\ T # <<>>
    /\ ~Contains(T, <<"\n">>)
    /\ ~IsSpace(T[1]) /\ T[1] # ")"
    /\ T[1] = "\"" =>
          /\ Enclosed(SubSeq(T, 1, FirstBoundary(T)))
          /\ ~Contains(SubSeq(T, 1, FirstBoundary(T)), <<"\\">>)

RECURSIVE SignedPrompts(_, _, _)
SignedPrompts(node, negated, under) ==
    IF node.type = "AITextSearch"
    THEN IF negated = under THEN <<node.prompt>> ELSE <<>>
    ELSE IF node.type \in {"AndNode", "OrNode"}
    THEN SignedPrompts(node.left, negated, under)
             \o SignedPrompts(node.right, negated, under)
    ELSE IF node.type = "NotNode" THEN SignedPrompts(node.child, negated, TRUE)
    ELSE <<>>

\* C16: extract_ai_info classifies every semantic prompt of the query as
\* positive or negative: a prompt preceded by NOT is listed in negative_texts,
\* every other prompt in positive_texts, and has_compound_terms is true iff
\* negative_texts is not empty.
PromptsAreSigned ==
    (pc \in {"search", "done"} /\ ast.exc = "None") =>
        /\ {"positive_texts", "negative_texts", "has_compound_terms"} \subseteq DOMAIN info
        /\ info.positive_texts = SignedPrompts(ast.node, FALSE, FALSE)
        /\ info.negative_texts = SignedPrompts(ast.node, TRUE, FALSE)
        /\ info.has_compound_terms <=> (info.negative_texts # <<>>)

\* the columns that hold text and are compared as they are
TextColumns ==
    {"category", "genre", "artist", "album", "title", "file", "uuid", "album_artist"}

\* C17: the template build_sql returns for a contains condition (mt, the
\* shorthand `field:value` included) on a text column holds the
\* case-insensitive collation marker COLLATE NOCASE.
ContainsIsCollated ==
    \A f \in Aliases, v \in Values :
        (/\ query \in {Shorthand(f, v.text), Longhand(f, v.text)}
         /\ FIELD_MAP[Lower(f)] \in TextColumns
         /\ sql # NotRun) =>
            /\ sql.exc = "None"
            /\ \E i \in DOMAIN sql.sql : sql.sql[i] = " COLLATE NOCASE"

\* the AST handed to build_sql is one field condition on the column db_field
\* with an operator of OPERATOR_MAP
ConditionOn(db_field) ==
    /\ ast.node.type = "FieldCondition"
    /\ ast.node.field \in DOMAIN FIELD_MAP
    /\ FIELD_MAP[ast.node.field] = db_field
    /\ ast.node.operator \in DOMAIN OPERATOR_MAP

\* C18: for a tag condition with a valid operator, build_sql returns the
\* always-false predicate 1=0 with no parameters when no viewer identity is
\* supplied (None or the empty string), and otherwise the membership subquery
\* on song_tags whose user_id placeholder is bound to the viewer: the
\* parameters are exactly [tag value, viewer identity].
TagScopedToViewer ==
    (ConditionOn("tag") /\ sql # NotRun) =>
        IF user_id \in {None, StrParam(<<>>)}
        THEN sql = Compiled(<<"1=0">>, <<>>)
        ELSE sql = Compiled(<<"uuid IN (SELECT song_uuid FROM song_tags st ",
                              "JOIN tags t ON st.tag_id = t.id ",
                              "WHERE t.name = ", "?", " AND st.user_id = ", "?", ")">>,
                            <<StrParam(ast.node.value), user_id>>)

\* build_sql has compiled `t:ne:y` for the viewer u1
TagScopedToViewerWitness ==
    /\ ast.node = FieldCondition(<<"t">>, <<"n","e">>, <<"y">>)
    /\ user_id = StrParam(<<"u","1">>)
    /\ sql.exc = "None"
    /\ sql.params = <<StrParam(<<"y">>), StrParam(<<"u","1">>)>>

\* the last n pieces of a template
LastPieces(template, n) == SubSeq(template, Len(template) - n + 1, Len(template))

\* C19: for a playlist condition with any valid operator, the compiled
\* membership subquery ends with the restriction to playlists that are public
\* or owned by the supplied viewer (bound as the last parameter), and to
\* public playlists only when no viewer is supplied; the contains operator
\* binds the value wrapped in '%' and compares with LIKE, equality binds the
\* raw value and compares with `= ? COLLATE NOCASE`.
PlaylistRestricted ==
    (ConditionOn("playlist") /\ sql # NotRun) =>
        /\ sql.exc = "None"
        /\ SubSeq(sql.sql, 1, 3)
               = <<"uuid IN (SELECT ps.song_uuid FROM playlist_songs ps ",
                   "JOIN playlists p ON ps.playlist_id = p.id ",
                   "WHERE ">>
        /\ IF user_id \in {None, StrParam(<<>>)}
           THEN /\ LastPieces(sql.sql, 1) = <<" AND p.is_public = 1)">>
                /\ Len(sql.params) = 1
           ELSE /\ LastPieces(sql.sql, 3)
                       = <<" AND (p.user_id = ", "?", " OR p.is_public = 1))">>
                /\ Len(sql.params) = 2
                /\ sql.params[2] = user_id
        /\ ast.node.operator = <<"m","t">> =>
              /\ SubSeq(sql.sql, 4, 5) = <<"p.name LIKE ", "?">>
              /\ sql.params[1] = StrParam(<<"%">> \o ast.node.value \o <<"%">>)
        /\ ast.node.operator = <<"e","q">> =>
              /\ SubSeq(sql.sql, 4, 6) = <<"p.name = ", "?", " COLLATE NOCASE">>
              /\ sql.params[1] = StrParam(ast.node.value)

\* build_sql has compiled `playlist:eq:y` without a viewer: the exact match
\* on public playlists only
PlaylistRestrictedWitness ==
    /\ ast.node = FieldCondition(<<"p","l","a","y","l","i","s","t">>, <<"e","q">>, <<"y">>)
    /\ user_id = None
    /\ sql.params = <<StrParam(<<"y">>)>>
    /\ LastPieces(sql.sql, 1) = <<" AND p.is_public = 1)">>

\* the parameters of the leaves of an AST, in left-to-right leaf order
RECURSIVE LeafParams(_, _)
LeafParams(node, u) ==
    IF node.type \in {"AndNode", "OrNode"}
    THEN LeafParams(node.left, u) \o LeafParams(node.right, u)
    ELSE IF node.type = "NotNode" THEN LeafParams(node.child, u)
    ELSE build_sql(node, u).params

\* C20: build_sql is structural on boolean nodes.  And / Or yield `(L AND R)`
\* / `(L OR R)` with the parameters of L followed by those of R, Not yields
\* `NOT (C)` with the parameters of C; so the parameter list of every compiled
\* AST is the concatenation of its leaves' parameters in leaf order; and
\* `NOT c:eq:Classical` gives `NOT (category = ? COLLATE NOCASE)` with the one
\* parameter Classical.
BuildSqlStructural ==
    /\ (sql # NotRun /\ sql.exc = "None") =>
          /\ ast.node.type \in {"AndNode", "OrNode"} =>
                /\ sql.sql = <<"(">> \o build_sql(ast.node.left, user_id).sql
                                 \o <<IF ast.node.type = "AndNode" THEN " AND " ELSE " OR ">>
                                 \o build_sql(ast.node.right, user_id).sql \o <<")">>
                /\ sql.params = build_sql(ast.node.left, user_id).params
                                    \o build_sql(ast.node.right, user_id).params
          /\ ast.node.type = "NotNode" =>
                /\ sql.sql = <<"NOT (">> \o build_sql(ast.node.child, user_id).sql \o <<")">>
                /\ sql.params = build_sql(ast.node.child, user_id).params
          /\ sql.params = LeafParams(ast.node, user_id)
    /\ build_sql(parse_query(<<"N","O","T"," ","c",":","e","q",":",
                               "C","l","a","s","s","i","c","a","l">>).node, None)
           = Compiled(<<"NOT (", "category", " ", "=", " ", "?", " COLLATE NOCASE", ")">>,
                      <<StrParam(<<"C","l","a","s","s","i","c","a","l">>)>>)

\* build_sql has compiled, for the viewer u1, the OR of a tag condition and a
\* playlist condition: two parameters from the left, then two from the right
BuildSqlStructuralWitness ==
    /\ ast.node = OrNode(FieldCondition(<<"t","a","g">>, <<"e","q">>, <<"x">>),
                         FieldCondition(<<"i","n">>, <<"m","t">>, <<"x">>))
    /\ user_id = StrParam(<<"u","1">>)
    /\ sql.exc = "None"
    /\ sql.params = <<StrParam(<<"x">>), StrParam(<<"u","1">>),
                      StrParam(<<"%","x","%">>), StrParam(<<"u","1">>)>>

\* the TextSearch leaves of an AST, left to right (a subquery is a leaf of
\* another kind and is not entered)
RECURSIVE FreeTextLeaves(_)
FreeTextLeaves(node) ==
    IF node.type \in {"AndNode", "OrNode"}
    THEN FreeTextLeaves(node.left) \o FreeTextLeaves(node.right)
    ELSE IF node.type = "NotNode" THEN FreeTextLeaves(node.child)
    ELSE IF node.type = "TextSearch" THEN <<node>>
    ELSE <<>>

\* what a free-text leaf must compile to: the always-true predicate without
\* parameters when its value is empty, else five contains comparisons joined
\* by OR with five parameters, each '%' + v + '%'
FreeTextPredicate(leaf) ==
    IF leaf.value = <<>> THEN Compiled(<<"1=1">>, <<>>)
    ELSE Compiled(<<"(", "title LIKE ", "?", " OR ", "artist LIKE ", "?", " OR ",
                    "album LIKE ", "?", " OR ", "category LIKE ", "?", " OR ",
                    "genre LIKE ", "?", ")">>,
                  << StrParam(<<"%">> \o leaf.value \o <<"%">>),
                     StrParam(<<"%">> \o leaf.value \o <<"%">>),
                     StrParam(<<"%">> \o leaf.value \o <<"%">>),
                     StrParam(<<"%">> \o leaf.value \o <<"%">>),
                     StrParam(<<"%">> \o leaf.value \o <<"%">>) >>)

\* C21: an empty or whitespace-only query parses to TextSearch('') and
\* compiles to the always-true predicate with no parameters; a free-text leaf
\* with a non-empty value v compiles to a disjunction of exactly five contains
\* comparisons (title, artist, album, category, genre) with exactly five
\* parameters, each '%' + v + '%', whether it is the whole AST or a leaf of it.
FreeTextCompilation ==
    /\ (ast # NotParsed /\ Strip(query) = <<>>) =>
          ast = Parsed("None", TextSearch(<<>>))
    /\ (sql # NotRun /\ Strip(query) = <<>>) => sql = Compiled(<<"1=1">>, <<>>)
    /\ (sql # NotRun /\ ast.node.type = "TextSearch") =>
          sql = FreeTextPredicate(ast.node)
    /\ sql # NotRun =>
          \A i \in 1..Len(FreeTextLeaves(ast.node)) :
              build_sql(FreeTextLeaves(ast.node)[i], user_id)
                  = FreeTextPredicate(FreeTextLeaves(ast.node)[i])

\* ` 1 ` has been parsed to the free-text leaf `1` and compiled to the five
\* comparisons, each bound to `%1%`
FreeTextCompilationWitness ==
    /\ query = <<" ", "1", " ">>
    /\ ast.node = TextSearch(<<"1">>)
    /\ Len(sql.sql) = 16
    /\ sql.params = [i \in 1..5 |-> StrParam(<<"%", "1", "%">>)]

\* the field conditions of an AST, left to right, outside any semantic
\* subquery
RECURSIVE FieldLeaves(_)
FieldLeaves(node) ==
    IF node.type \in {"AndNode", "OrNode"}
    THEN FieldLeaves(node.left) \o FieldLeaves(node.right)
    ELSE IF node.type = "NotNode" THEN FieldLeaves(node.child)
    ELSE IF node.type = "FieldCondition" THEN <<node>>
    ELSE <<>>

\* a field condition whose field is no catalog alias or whose operator is
\* none of the eight
UnknownCondition(cond) ==
    \/ cond.field \notin DOMAIN FIELD_MAP
    \/ cond.operator \notin { <<"e","q">>, <<"n","e">>, <<"m","t">>, <<"n","m">>,
                              <<"g","t">>, <<"l","t">>, <<"g","t","e">>,
                              <<"l","t","e">> }

\* C22: build_sql raises for every AST that contains, outside a semantic
\* subquery, a field condition whose field is not a catalog alias or whose
\* operator is not one of eq, ne, mt, nm, gt, lt, gte, lte, for every field
\* kind (tag and playlist included) and with or without a viewer identity, and
\* returns no partial predicate; parse_query accepts such conditions.
UnknownFieldOrOperatorRaises ==
    /\ (sql # NotRun /\ \E i \in 1..Len(FieldLeaves(ast.node)) :
                            UnknownCondition(FieldLeaves(ast.node)[i])) =>
          sql = CompileError("ValueError")
    /\ parse_query(<<"z",":","m","t",":","x">>)
           = Parsed("None", FieldCondition(<<"z">>, <<"m","t">>, <<"x">>))
    /\ parse_query(<<"t",":","z",":","x">>)
           = Parsed("None", FieldCondition(<<"t">>, <<"z">>, <<"x">>))
    /\ parse_query(<<"i","n",":","z",":","x">>)
           = Parsed("None", FieldCondition(<<"i","n">>, <<"z">>, <<"x">>))

\* build_sql has raised, for a viewer, on `a:mt:x AND t:z:x`, whose tag
\* condition has an operator OPERATOR_MAP lacks
UnknownFieldOrOperatorRaisesWitness ==
    /\ ast.node = AndNode(FieldCondition(<<"a">>, <<"m","t">>, <<"x">>),
                          FieldCondition(<<"t">>, <<"z">>, <<"x">>))
    /\ user_id = StrParam(<<"u","1">>)
    /\ sql = CompileError("ValueError")

\* the leaves of an AST that are not semantic, left to right; nothing (None)
\* has no leaves
RECURSIVE PlainLeaves(_)
PlainLeaves(node) ==
    IF node.type \in {"AndNode", "OrNode"}
    THEN PlainLeaves(node.left) \o PlainLeaves(node.right)
    ELSE IF node.type = "NotNode" THEN PlainLeaves(node.child)
    ELSE IF node.type \in {"FieldCondition", "TextSearch"} THEN <<node>>
    ELSE <<>>

\* the AST has a semantic leaf (the inside of a subquery is not looked at)
RECURSIVE HasSemanticLeaf(_)
HasSemanticLeaf(node) ==
    IF node.type \in {"AndNode", "OrNode"}
    THEN HasSemanticLeaf(node.left) \/ HasSemanticLeaf(node.right)
    ELSE IF node.type = "NotNode" THEN HasSemanticLeaf(node.child)
    ELSE node.type \in {"AITextSearch", "AISubquerySearch"}

\* the rule of the strip walk at node n, whose result is c, with l, r the
\* results for its children (l alone for the child of a NotNode)
StripRule(n, c, l, r) ==
    IF n.type \in {"AITextSearch", "AISubquerySearch"} THEN c = None
    ELSE IF n.type \in {"AndNode", "OrNode"}
    THEN /\ (l = None /\ r = None) => c = None
         /\ (l = None /\ r # None) => c = r
         /\ (l # None /\ r = None) => c = l
         /\ (l # None /\ r # None) =>
               /\ c.type = n.type
               /\ c.left = l
               /\ c.right = r
    ELSE IF n.type = "NotNode"
    THEN /\ l = None => c = None
         /\ l # None => c = NotNode(l)
    ELSE c = n

\* C23: the strip walk of extract_ai_info deletes a semantic leaf; deletes an
\* And/Or whose children are both deleted, replaces one with exactly one child
\* deleted by the stripped surviving child, rebuilds one with neither deleted
\* as the same connective over the stripped children; deletes a Not whose
\* child is deleted; keeps every non-semantic leaf unchanged.  So context_ast,
\* when not None, has no semantic node, and its non-semantic leaves are those
\* of the input in the same left-to-right order.
StripWalk ==
    (pc = "search" /\ ast.exc = "None") =>
        /\ StripRule(ast.node, info.context_ast,
               IF ast.node.type \in {"AndNode", "OrNode"}
               THEN remove_ai_nodes(ast.node.left)
               ELSE IF ast.node.type = "NotNode"
               THEN remove_ai_nodes(ast.node.child) ELSE None,
               IF ast.node.type \in {"AndNode", "OrNode"}
               THEN remove_ai_nodes(ast.node.right) ELSE None)
        /\ info.context_ast # None => ~HasSemanticLeaf(info.context_ast)
        /\ PlainLeaves(info.context_ast) = PlainLeaves(ast.node)

\* the strip walk has run on And(ai:q, g:eq:x): the prompt is deleted and
\* the conjunction is replaced by the field condition that survives
StripWalkWitness ==
    /\ pc = "search"
    /\ ast.node = AndNode(AITextSearch(<<"q">>),
                          FieldCondition(<<"g">>, <<"e","q">>, <<"x">>))
    /\ info.context_ast = FieldCondition(<<"g">>, <<"e","q">>, <<"x">>)

\* the semantic leaves reachable through And/Or/Not, in left-to-right
\* depth-first order, one entry per leaf
RECURSIVE SemanticLeaves(_)
SemanticLeaves(node) ==
    IF node.type \in {"AndNode", "OrNode"}
    THEN SemanticLeaves(node.left) \o SemanticLeaves(node.right)
    ELSE IF node.type = "NotNode" THEN SemanticLeaves(node.child)
    ELSE IF node.type \in {"AITextSearch", "AISubquerySearch"} THEN <<node>>
    ELSE <<>>

IsPromptLeaf(node) == node.type = "AITextSearch"

IsSubqueryLeaf(node) == node.type = "AISubquerySearch"

\* C24: the collect walk of extract_ai_info returns in text_prompts the
\* prompts of all AITextSearch leaves reachable through And/Or/Not and in
\* subqueries the inner ASTs of all AISubquerySearch leaves so reachable, each
\* list in left-to-right depth-first encounter order, one entry per leaf
\* (duplicates kept).
CollectWalk ==
    (pc = "search" /\ ast.exc = "None") =>
        LET prompts == SelectSeq(SemanticLeaves(ast.node), IsPromptLeaf)
            subs    == SelectSeq(SemanticLeaves(ast.node), IsSubqueryLeaf)
        IN  /\ Len(info.text_prompts) = Len(prompts)
            /\ \A i \in 1..Len(prompts) : info.text_prompts[i] = prompts[i].prompt
            /\ Len(info.subqueries) = Len(subs)
            /\ \A i \in 1..Len(subs) : info.subqueries[i] = subs[i].subquery

\* the collect walk has run on Or(ai:q, ai:p): the prompts are listed in the
\* order of the leaves
CollectWalkWitness ==
    /\ pc = "search"
    /\ ast.node = OrNode(AITextSearch(<<"q">>), AITextSearch(<<"p">>))
    /\ info.text_prompts = << <<"q">>, <<"p">> >>
    /\ info.subqueries = <<>>

\* the lexer of a caller that has made k next_token calls on text, alone
RECURSIVE ScannedAlone(_, _)
ScannedAlone(text, k) ==
    IF k = 0 THEN NewLexer
    ELSE next_token(text, ScannedAlone(text, k - 1).pos)

\* invocation i holds what an invocation running alone on its query holds at
\* the same point
AsAlone(i) ==
    /\ \E k \in 0..(Len(query[i]) + 1) : lexer[i] = ScannedAlone(query[i], k)
    /\ ast[i] # NotParsed => ast[i] = parse_query(query[i])
    /\ sql[i] # NotRun =>
          sql[i] = build_sql(parse_query(query[i]).node, user_id[i])
    /\ info[i] # NoInfo => info[i] = extract_ai_info(parse_query(query[i]).node)
    /\ (pc[i] = "done" /\ ast[i].exc = "None") =>
          /\ sql[i] # NotRun
          /\ info[i] = extract_ai_info(parse_query(query[i]).node)

\* a step leaves invocation j as it was
Untouched(j) ==
    /\ query'[j] = query[j]
    /\ user_id'[j] = user_id[j]
    /\ pc'[j] = pc[j]
    /\ lexer'[j] = lexer[j]
    /\ ast'[j] = ast[j]
    /\ sql'[j] = sql[j]
    /\ info'[j] = info[j]
    /\ result'[j] = result[j]

RECURSIVE SubqueryDepth(_)
SubqueryDepth(node) ==
    IF node.type \in {"AndNode", "OrNode"}
    THEN IF SubqueryDepth(node.left) > SubqueryDepth(node.right)
         THEN SubqueryDepth(node.left) ELSE SubqueryDepth(node.right)
    ELSE IF node.type = "NotNode" THEN SubqueryDepth(node.child)
    ELSE IF node.type = "AISubquerySearch" THEN 1 + SubqueryDepth(node.subquery)
    ELSE 0

\* C26: parse_query enforces a limit on the nesting depth of parentheses and
\* of ai(...) subqueries, so that its recursion depth is bounded independently
\* of the input: a query is not recursed into as deep as its length allows,
\* one level for each of the MaxFrags fragments of the longest query.
NestingLimited ==
    (ast # NotParsed /\ ast.exc = "None") => SubqueryDepth(ast.node) < MaxFrags

\* the tokens a parser in state st has not consumed yet
Remaining(text, st) ==
    IF st.current.type = "EOF" THEN 0 ELSE Len(TokenTypes(text, st.pos))

\* one iteration of the loop of _or_expr and one of the loop of _and_expr,
\* started by a parser in state st, raise or leave fewer tokens than they
\* found
LoopsConsume(text, st) ==
    /\ st.current.type = "OR" =>
          LET r == _and_expr(text, _advance(text, st).st)
          IN  r.exc # "None" \/ Remaining(text, r.st) < Remaining(text, st)
    /\ st.current.type \in ({"AND"} \cup TermStart) =>
          LET a == IF st.current.type = "AND" THEN _advance(text, st).st ELSE st
              r == _term(text, a)
          IN  a.current.type \in TermStart =>
                  r.exc # "None" \/ Remaining(text, r.st) < Remaining(text, st)

\* C27: the lexer position never decreases and every next_token call that
\* returns a token other than EOF strictly increases it; every iteration of
\* the parser loops consumes at least one token; the text captured by ai(...)
\* is strictly shorter than the text it is captured from; hence parse_query
\* terminates, with an AST or an error, on every query.
ProgressAndTermination ==
    /\ [][/\ lexer'.pos >= lexer.pos
          /\ (lexer' # lexer /\ lexer'.tok.type # "EOF") => lexer'.pos > lexer.pos]_vars
    /\ [](/\ (lexer.exc = "None" /\ lexer.tok.type # "None") =>
                LoopsConsume(query, ParserState(lexer.pos, lexer.tok))
          /\ lexer.tok.type = "AI_FUNC" => Len(lexer.tok.value) < Len(query))
    /\ <>(ast # NotParsed)

\* `Ai(a:x)` has been read to its end in two next_token calls and parse_query
\* has returned, the capture `a:x` parsed by a parse_query call of its own
ProgressAndTerminationWitness ==
    /\ query = <<"A","i","(","a",":","x",")">>
    /\ lexer.tok.type = "EOF"
    /\ lexer.pos = 7
    /\ ast = Parsed("None", AISubquerySearch(
                                FieldCondition(<<"a">>, <<"m","t">>, <<"x">>)))

\* `X AND OR Y`
DanglingBeforeOr(X, Y) == X \o <<" ","A","N","D"," ","O","R"," ">> \o Y

\* `X OR Y`
Disjoined(X, Y) == X \o <<" ","O","R"," ">> \o Y

\* `(X AND) Y`
DanglingInGroup(X, Y) == <<"(">> \o X \o <<" ","A","N","D",")"," ">> \o Y

\* `(X) Y`
GroupThenTerm(X, Y) == <<"(">> \o X \o <<")"," ">> \o Y

PlaylistAlike(operator) ==
    IF operator \in {<<"m","t">>, <<"n","m">>}
    THEN {<<"m","t">>, <<"n","m">>}
    ELSE {<<"e","q">>, <<"n","e">>, <<"g","t">>, <<"l","t">>, <<"g","t","e">>,
          <<"l","t","e">>}

RECURSIVE SemanticNodes(_)
SemanticNodes(node) ==
    IF node.type \in {"AndNode", "OrNode"}
    THEN SemanticNodes(node.left) \cup SemanticNodes(node.right)
    ELSE IF node.type = "NotNode" THEN SemanticNodes(node.child)
    ELSE IF node.type = "AITextSearch" THEN {node}
    ELSE IF node.type = "AISubquerySearch"
    THEN {node} \cup SemanticNodes(node.subquery)
    ELSE {}

\* the semantic nodes of an AST that occur only inside some ai(...)
NestedOnly(node) ==
    LET outer == SemanticLeaves(node)
    IN  UNION {SemanticNodes(outer[i].subquery) :
                  i \in {k \in 1..Len(outer) : IsSubqueryLeaf(outer[k])}}
            \ {outer[i] : i \in 1..Len(outer)}

\* C30: extract_ai_info does not descend into semantic subqueries.  A
\* semantic leaf that occurs only inside ai(...) is not added to text_prompts
\* or subqueries, which together have one entry per semantic leaf outside any
\* ai(...); each entry of subqueries is the inner AST of an outer ai(...) with
\* its own semantic nodes still in it; and the context AST holds no semantic
\* node.
NoDescentIntoSubqueries ==
    (pc = "search" /\ ast.exc = "None") =>
        LET outer  == SemanticLeaves(ast.node)
            nested == NestedOnly(ast.node)
        IN  /\ Len(info.text_prompts) + Len(info.subqueries) = Len(outer)
            /\ \A n \in nested :
                  /\ IsPromptLeaf(n) =>
                        \A i \in 1..Len(info.text_prompts) :
                            info.text_prompts[i] # n.prompt
                  /\ IsSubqueryLeaf(n) =>
                        \A i \in 1..Len(info.subqueries) :
                            info.subqueries[i] # n.subquery
            /\ \A i \in 1..Len(info.subqueries) :
                  \E j \in 1..Len(outer) :
                      /\ IsSubqueryLeaf(outer[j])
                      /\ info.subqueries[i] = outer[j].subquery
                      /\ SemanticNodes(info.subqueries[i])
                             = SemanticNodes(outer[j].subquery)
            /\ info.context_ast # None => SemanticNodes(info.context_ast) = {}

\* extraction has run on NOT ai(ai:r AND g:eq:x): the prompt r is in no
\* list, and the one subquery still contains it
NoDescentIntoSubqueriesWitness ==
    /\ pc = "search"
    /\ ast.node = NotNode(AISubquerySearch(
                      AndNode(AITextSearch(<<"r">>),
                              FieldCondition(<<"g">>, <<"e","q">>, <<"x">>))))
    /\ info.has_ai
    /\ info.text_prompts = <<>>
    /\ info.subqueries = << AndNode(AITextSearch(<<"r">>),
                                    FieldCondition(<<"g">>, <<"e","q">>, <<"x">>)) >>
    /\ AITextSearch(<<"r">>) \in SemanticNodes(info.subqueries[1])
    /\ info.context_ast = None

====
